---- MODULE Spec2Model ----
(***************************************************************************)
(* A model of the promise package of zafnz/go-missing                      *)
(* (src/promise/promise.go).                                               *)
(*                                                                         *)
(* A Promise[T] is a struct {value, err, finished, done}.  New(fn) makes   *)
(* a pending promise and starts one goroutine that calls fn and then       *)
(* resolve or reject; Resolve and Reject make a finished promise on the    *)
(* shared closedChan; Then is New over a closure that waits for the        *)
(* parent's Done channel and calls the transform; Race and All are New     *)
(* over a closure that starts one observer goroutine per promise passed    *)
(* and receives their indices on a buffered channel; Timeout is New over   *)
(* a closure that sleeps.  T is string here: the zero value is "" and the  *)
(* transforms are those of the examples.                                   *)
(*                                                                         *)
(* Every goroutine step that reads or writes shared memory is one action,  *)
(* so that the interleavings of the writer of a promise with its readers   *)
(* are all explored.                                                       *)
(***************************************************************************)
EXTENDS Integers, Sequences, FiniteSets, TLC

\* ---------------------------------------------------------------- bounds
\* The number of promises the client program creates.
MaxPromises == 3
\* The number of Await calls the client program makes.
MaxAwait == 2
\* The number of promises of a client program whose consumers are followed
\* from the call of Await to its return (SpecAwait).
MaxWatched == 2
\* The longest duration, in ticks, the client passes to Timeout, TimeoutFn
\* and TimeoutFnErr.
MaxSleep == 1
\* The number of calls of TimeoutFn and TimeoutFnErr the client makes.
MaxCalls == 2
\* The longest List the client starts from, the largest spare capacity of a
\* backing array, and the largest number of values passed to List.Insert.
MaxLen == 3
MaxSpare == 1
MaxVals == 2
\* The largest key of a Set.
MaxKey == 3

\* ------------------------------------------------------------ data values
\* The nil error.
Nil == "<nil>"
\* The zero value of T (T = string).
Zero == ""
\* os.ErrDeadlineExceeded
ErrDeadlineExceeded == "i/o timeout"

\* A slice []T: the nil slice, which is the zero value of []T, and the slice
\* make([]T, n) of n zero values.  Positions are counted from 1 here, from 0
\* in the code.
NilSlice == [isNil |-> TRUE, elems |-> << >>]
make(n) == [isNil |-> FALSE, elems |-> [i \in 1..n |-> Zero]]

\* The zero value of the type of a promise: All makes a Promise[[]T], every
\* other constructor a Promise[T].
ZeroOf(kind) == IF kind = "all" THEN NilSlice ELSE Zero

\* What a unit of work passed to New returns: a value and a nil error, or
\* an error, and then (as a user function may: return data, err) a value
\* beside it.
WorkReturns ==
    { <<"Hello", Nil>>,
      <<"Hello", "something went wrong">> }

\* What the units of work of a client of All return: the two values of
\* TestAll, or an error.
AllReturns ==
    { <<"42", Nil>>,
      <<"55", Nil>>,
      <<Zero, "something went wrong">> }

\* The arguments the client passes to Resolve and to Reject.
ResolveArgs == {"Hello"}
RejectArgs == {"blerg"}

\* The transforms the client passes to Then.
Transforms == {"World", "Bang", "Special"}

\* The transforms of a client that handles errors in Then: one that hands
\* the parent's error on, one that returns another error in its place, and
\* one that ignores it and returns a value.
ErrorTransforms == {"Special", "Replace", "World"}

\* transform(v, e): the pair a transform returns for the parent's value and
\* error.  World and Bang are the chaining example's; Special is the README's
\* specialProcess with DoOtherThingsWithData failing: it hands an error of
\* the parent on, and otherwise returns the data together with a new error.
\* Replace is the errors example's transform returning another error (and
\* another value) instead of the parent's.
transform(t, v, e) ==
    CASE t = "World" -> <<v \o " World", Nil>>
      [] t = "Bang" -> <<v \o "!", Nil>>
      [] t = "Special" -> IF e # Nil THEN <<Zero, e>> ELSE <<v, "other failed">>
      [] t = "Replace" -> IF e # Nil THEN <<"fallback", "wrapped: " \o e>> ELSE <<v, Nil>>

\* ------------------------------------------------------------------ state
VARIABLES
    promises,   \* the Promise structs, in order of creation
    chans,      \* channel id -> number of close() calls on it; 0 is closedChan
    tasks,      \* per promise: how it was made and where the goroutine of New stands
    waiting,    \* per promise: the Await calls blocked in <-p.Done()
    awaited,    \* per promise: the pairs its Await calls have returned, in order
    forced,     \* the Completed promise the latest further resolve/reject call was on (0: none)
    now,        \* the time, in ticks, while a goroutine is in time.Sleep or a timer runs
    fns,        \* the calls of TimeoutFn and TimeoutFnErr, in order, each with its goroutine
    list,       \* a missing.List: its backing array and its length
    inserted,   \* the latest call of List.Insert: the elements before it and its arguments
    sets,       \* the missing.Set maps the client holds, in order of creation
    setOp       \* the latest call of Union, Intersection or Difference

vars == <<promises, chans, tasks, waiting, awaited, forced, now, fns, list, inserted,
         sets, setOp>>

\* The state of package missing outside package promise.
outside == <<fns, list, inserted, sets, setOp>>

\* The shared pre-closed channel of Resolve and Reject.
closedChan == 0

np == Len(promises)
Ids == 1..np

\* close(ch) has been called on ch.
IsClosed(ch) == chans[ch] > 0

\* p.Done()
Done(p) == promises[p].done

\* The record kept beside a promise.  kind: "resolved" and "rejected" for a
\* promise of Resolve and Reject (no goroutine), "work" for New over a client
\* function, "then", "race", "all" and "timeout" for New over the closure of
\* Then, Race, All and Timeout.  pc: "run" from the go
\* statement until the unit of work returns, "ret" once it has returned,
\* "close" inside resolve/reject before close(p.done), "exit" afterwards.
\* invoked: the calls made of the client's function (the work, the transform);
\* argv, arge: what the transform was called with; rv, re: what the function
\* returned (for Resolve and Reject: the argument); calls: the resolve and
\* reject calls the goroutine made.  For Race and All, ins: the promises
\* passed; obs: where the observer goroutine of each stands ("wait" in
\* <-p.Done() or at the send, "done" after the send); buf: the indices in the
\* buffer of the notification channel; bufClosed: close() was called on it;
\* panicked: an observer sent on it after that; idx: the index Race received;
\* results, got: the slice All fills and the indices it has received.  For
\* Timeout, wake: the time at which time.Sleep may return.
NoTask ==
    [kind |-> "resolved", pc |-> "exit", parent |-> 0, fn |-> "", invoked |-> 0,
     argv |-> Zero, arge |-> Nil, rv |-> Zero, re |-> Nil, calls |-> 0,
     ins |-> << >>, obs |-> << >>, buf |-> << >>, bufClosed |-> FALSE,
     panicked |-> FALSE, idx |-> 0, results |-> NilSlice, got |-> 0, wake |-> 0]

\* A unit of work as New is given it: a client function (kind "work") or the
\* closure of Then (with the parent and the transform), of Race and of All
\* (with the promises passed), or of Timeout (with the duration).
Fn(kind) == [kind |-> kind, parent |-> 0, fn |-> "", ins |-> << >>, sleep |-> 0]

\* No call of Union, Intersection or Difference has been made.
NoSetOp == [op |-> "", a |-> 0, b |-> 0, r |-> 0, called |-> FALSE]

\* No call of List.Insert has been made.
NoInsert == [old |-> << >>, index |-> 0, vals |-> << >>, called |-> FALSE]

\* var closedChan = make(chan struct{}); func init() { close(closedChan) }
Init ==
    /\ promises = << >>
    /\ chans = (closedChan :> 1)
    /\ tasks = << >>
    /\ waiting = << >>
    /\ awaited = << >>
    /\ forced = 0
    /\ now = 0
    /\ fns = << >>
    /\ list = [arr |-> << >>, len |-> 0]
    /\ inserted = NoInsert
    /\ sets = << >>
    /\ setOp = NoSetOp

\* A promise struct enters the program (shared by New, Resolve and Reject).
Alloc(pr, task) ==
    /\ np < MaxPromises
    /\ promises' = Append(promises, pr)
    /\ tasks' = Append(tasks, task)
    /\ waiting' = Append(waiting, 0)
    /\ awaited' = Append(awaited, << >>)
    /\ UNCHANGED <<forced, now, outside>>

\* ----------------------------------------------------------- constructors
\* New(fn): p := Promise{}; p.done = make(chan struct{}); go func(){...}();
\* return &p.  The goroutine calls the unit of work fn first thing; invoked
\* counts the calls of the client's function, which for Then's closure comes
\* after its receive.  The closures of Race and All start by making the
\* notification channel (and All its results) and starting one observer per
\* promise passed; the closure of Timeout starts by going to sleep.
New(fn) ==
    /\ Alloc([value |-> ZeroOf(fn.kind), err |-> Nil, finished |-> FALSE, done |-> np + 1],
             [NoTask EXCEPT !.kind = fn.kind, !.pc = "run",
                            !.invoked = IF fn.kind = "then" THEN 0 ELSE 1,
                            !.parent = fn.parent, !.fn = fn.fn,
                            !.ins = fn.ins,
                            !.obs = [i \in 1..Len(fn.ins) |-> "wait"],
                            !.results = IF fn.kind = "all" THEN make(Len(fn.ins)) ELSE NilSlice,
                            !.wake = IF fn.kind = "timeout" THEN now + fn.sleep ELSE 0])
    /\ chans' = chans @@ ((np + 1) :> 0)

\* (mutant: Resolve makes a channel of its own and leaves it open)
Resolve_OwnChan(val) ==
    /\ Alloc([value |-> val, err |-> Nil, finished |-> TRUE, done |-> np + 1],
             [NoTask EXCEPT !.kind = "resolved", !.rv = val])
    /\ chans' = chans @@ ((np + 1) :> 0)

\* Resolve(val)
Resolve(val) ==
    /\ Alloc([value |-> val, err |-> Nil, finished |-> TRUE, done |-> closedChan],
             [NoTask EXCEPT !.kind = "resolved", !.rv = val])
    /\ UNCHANGED chans

\* (mutant: Reject builds a pending promise on closedChan and calls reject
\* on it, which closes the shared channel again)
Reject_CallsReject(e) ==
    /\ Alloc([value |-> Zero, err |-> e, finished |-> TRUE, done |-> closedChan],
             [NoTask EXCEPT !.kind = "rejected", !.re = e])
    /\ chans' = [chans EXCEPT ![closedChan] = @ + 1]

\* Reject(err)
Reject(e) ==
    /\ Alloc([value |-> Zero, err |-> e, finished |-> TRUE, done |-> closedChan],
             [NoTask EXCEPT !.kind = "rejected", !.re = e])
    /\ UNCHANGED chans

\* (mutant: Then waits for the parent in the caller's context)
Then_AwaitsParent(p, t) ==
    /\ IsClosed(Done(p))
    /\ New([Fn("then") EXCEPT !.parent = p, !.fn = t])

\* p.Then(fn): next := New(func() (T, error) { <-p.Done(); return fn(p.value, p.err) })
Then(p, t) == New([Fn("then") EXCEPT !.parent = p, !.fn = t])

\* New(work) for a client function work.
NewWork == New([Fn("work") EXCEPT !.fn = "work"])

\* Race(promises...): ps is the list of the promises passed.
Race(ps) == New([Fn("race") EXCEPT !.ins = ps])

\* All(promises...)
All(ps) == New([Fn("all") EXCEPT !.ins = ps])

\* Timeout(duration)
Timeout(d) == New([Fn("timeout") EXCEPT !.sleep = d])

\* ------------------------------------------------- the goroutine of New(fn)
SetTask(p, t) == tasks' = [tasks EXCEPT ![p] = t]

\* The client's unit of work returns (it may also never return).
WorkReturn(p, r) ==
    /\ tasks[p].kind = "work"
    /\ tasks[p].pc = "run"
    /\ SetTask(p, [tasks[p] EXCEPT !.pc = "ret", !.rv = r[1], !.re = r[2]])
    /\ UNCHANGED <<promises, chans, waiting, awaited, forced, now, outside>>

\* (mutant: Then's closure runs the parent's unit of work again to get at
\* its result)
ThenRun_RerunsParent(p) ==
    /\ tasks[p].kind = "then"
    /\ tasks[p].pc = "run"
    /\ IsClosed(Done(tasks[p].parent))
    /\ LET par == promises[tasks[p].parent]
           r == transform(tasks[p].fn, par.value, par.err)
       IN tasks' = [tasks EXCEPT
                      ![p] = [@ EXCEPT !.pc = "ret", !.invoked = @ + 1,
                                       !.argv = par.value, !.arge = par.err,
                                       !.rv = r[1], !.re = r[2]],
                      ![tasks[p].parent] = [@ EXCEPT !.invoked = @ + 1]]
    /\ UNCHANGED <<promises, chans, waiting, awaited, forced, now, outside>>

\* (mutant: Then's closure calls the transform without the receive on the
\* parent's channel)
ThenRun_NoReceive(p) ==
    /\ tasks[p].kind = "then"
    /\ tasks[p].pc = "run"
    /\ LET par == promises[tasks[p].parent]
           r == transform(tasks[p].fn, par.value, par.err)
       IN SetTask(p, [tasks[p] EXCEPT !.pc = "ret", !.invoked = @ + 1,
                                      !.argv = par.value, !.arge = par.err,
                                      !.rv = r[1], !.re = r[2]])
    /\ UNCHANGED <<promises, chans, waiting, awaited, forced, now, outside>>

\* (mutant: completion is signalled by a value sent on the channel, which
\* the first receive takes away)
ThenRun_TakesSignal(p) ==
    /\ tasks[p].kind = "then"
    /\ tasks[p].pc = "run"
    /\ IsClosed(Done(tasks[p].parent))
    /\ LET par == promises[tasks[p].parent]
           r == transform(tasks[p].fn, par.value, par.err)
       IN SetTask(p, [tasks[p] EXCEPT !.pc = "ret", !.invoked = @ + 1,
                                      !.argv = par.value, !.arge = par.err,
                                      !.rv = r[1], !.re = r[2]])
    /\ chans' = [chans EXCEPT ![Done(tasks[p].parent)] = 0]
    /\ UNCHANGED <<promises, waiting, awaited, forced, now, outside>>

\* (mutant: Then's closure hands an error of the parent on without calling
\* the transform)
ThenRun_ShortCircuit(p) ==
    /\ tasks[p].kind = "then"
    /\ tasks[p].pc = "run"
    /\ IsClosed(Done(tasks[p].parent))
    /\ LET par == promises[tasks[p].parent]
           r == transform(tasks[p].fn, par.value, par.err)
       IN IF par.err # Nil
          THEN SetTask(p, [tasks[p] EXCEPT !.pc = "ret", !.rv = Zero, !.re = par.err])
          ELSE SetTask(p, [tasks[p] EXCEPT !.pc = "ret", !.invoked = @ + 1,
                                           !.argv = par.value, !.arge = par.err,
                                           !.rv = r[1], !.re = r[2]])
    /\ UNCHANGED <<promises, chans, waiting, awaited, forced, now, outside>>

\* Then's closure: <-p.Done(); return fn(p.value, p.err).  The receive
\* returns once the parent's channel is closed; the closure then reads the
\* parent's fields and calls the transform with them.
ThenRun(p) ==
    /\ tasks[p].kind = "then"
    /\ tasks[p].pc = "run"
    /\ IsClosed(Done(tasks[p].parent))
    /\ LET par == promises[tasks[p].parent]
           r == transform(tasks[p].fn, par.value, par.err)
       IN SetTask(p, [tasks[p] EXCEPT !.pc = "ret", !.invoked = @ + 1,
                                      !.argv = par.value, !.arge = par.err,
                                      !.rv = r[1], !.re = r[2]])
    /\ UNCHANGED <<promises, chans, waiting, awaited, forced, now, outside>>

\* --------------------------------------- the closures of Race, All, Timeout
\* (mutant: the notification channel has room for one index)
chanCap_One(t) == 1

\* ch := make(chan int, len(promises))
chanCap(t) == Len(t.ins)

\* (mutant: an observer that reports after the Race or All promise has
\* completed stores the fields of its own promise in it)
Report_Overwrites(p, i) ==
    /\ tasks[p].kind \in {"race", "all"}
    /\ i \in 1..Len(tasks[p].ins)
    /\ tasks[p].obs[i] = "wait"
    /\ IsClosed(Done(tasks[p].ins[i]))
    /\ tasks[p].bufClosed \/ Len(tasks[p].buf) < chanCap(tasks[p])
    /\ SetTask(p, [tasks[p] EXCEPT
                     !.obs[i] = "done",
                     !.buf = IF tasks[p].bufClosed THEN @ ELSE Append(@, i),
                     !.panicked = @ \/ tasks[p].bufClosed])
    /\ IF promises[p].finished /\ tasks[p].kind = "race"
       THEN promises' = [promises EXCEPT
                           ![p].value = promises[tasks[p].ins[i]].value,
                           ![p].err = promises[tasks[p].ins[i]].err]
       ELSE UNCHANGED promises
    /\ UNCHANGED <<chans, waiting, awaited, forced, now, outside>>

\* (mutant: the observer of a Timeout promise never reports)
Report_NotForTimeout(p, i) ==
    /\ tasks[p].kind \in {"race", "all"}
    /\ i \in 1..Len(tasks[p].ins)
    /\ tasks[tasks[p].ins[i]].kind # "timeout"
    /\ tasks[p].obs[i] = "wait"
    /\ IsClosed(Done(tasks[p].ins[i]))
    /\ tasks[p].bufClosed \/ Len(tasks[p].buf) < chanCap(tasks[p])
    /\ SetTask(p, [tasks[p] EXCEPT
                     !.obs[i] = "done",
                     !.buf = IF tasks[p].bufClosed THEN @ ELSE Append(@, i),
                     !.panicked = @ \/ tasks[p].bufClosed])
    /\ UNCHANGED <<promises, chans, waiting, awaited, forced, now, outside>>

\* (mutant: the observers send their indices in the order of the promises
\* passed)
Report_InInputOrder(p, i) ==
    /\ tasks[p].kind \in {"race", "all"}
    /\ i \in 1..Len(tasks[p].ins)
    /\ tasks[p].obs[i] = "wait"
    /\ \A j \in 1..(i - 1) : tasks[p].obs[j] = "done"
    /\ IsClosed(Done(tasks[p].ins[i]))
    /\ tasks[p].bufClosed \/ Len(tasks[p].buf) < chanCap(tasks[p])
    /\ SetTask(p, [tasks[p] EXCEPT
                     !.obs[i] = "done",
                     !.buf = IF tasks[p].bufClosed THEN @ ELSE Append(@, i),
                     !.panicked = @ \/ tasks[p].bufClosed])
    /\ UNCHANGED <<promises, chans, waiting, awaited, forced, now, outside>>

\* The observer goroutine of the i-th promise passed to the Race or All
\* promise p: <-q.Done(); ch <- i.  The receive returns once q's channel is
\* closed and the send once the buffer has room; a send on a channel that
\* was closed panics.
Report(p, i) ==
    /\ tasks[p].kind \in {"race", "all"}
    /\ i \in 1..Len(tasks[p].ins)
    /\ tasks[p].obs[i] = "wait"
    /\ IsClosed(Done(tasks[p].ins[i]))
    /\ tasks[p].bufClosed \/ Len(tasks[p].buf) < chanCap(tasks[p])
    /\ SetTask(p, [tasks[p] EXCEPT
                     !.obs[i] = "done",
                     !.buf = IF tasks[p].bufClosed THEN @ ELSE Append(@, i),
                     !.panicked = @ \/ tasks[p].bufClosed])
    /\ UNCHANGED <<promises, chans, waiting, awaited, forced, now, outside>>

\* (mutant: Race's closure waits for a report and then returns the fields of
\* the first promise passed)
RaceRun_FirstInput(p) ==
    /\ tasks[p].kind = "race"
    /\ tasks[p].pc = "run"
    /\ Len(tasks[p].buf) > 0
    /\ LET q == promises[tasks[p].ins[1]]
       IN SetTask(p, [tasks[p] EXCEPT !.pc = "ret", !.buf = Tail(@), !.idx = 1,
                                      !.rv = q.value, !.re = q.err])
    /\ UNCHANGED <<promises, chans, waiting, awaited, forced, now, outside>>

\* (mutant: Race's closure returns the value of the first promise passed
\* with the error of the winner)
RaceRun_Mixes(p) ==
    /\ tasks[p].kind = "race"
    /\ tasks[p].pc = "run"
    /\ Len(tasks[p].buf) > 0
    /\ LET i == Head(tasks[p].buf)
           q == promises[tasks[p].ins[i]]
       IN SetTask(p, [tasks[p] EXCEPT !.pc = "ret", !.buf = Tail(@), !.idx = i,
                                      !.rv = promises[tasks[p].ins[1]].value,
                                      !.re = q.err])
    /\ UNCHANGED <<promises, chans, waiting, awaited, forced, now, outside>>

\* (mutant: Race's closure, having its winner, stops the goroutines of the
\* other promises passed)
RaceRun_CancelsLosers(p) ==
    /\ tasks[p].kind = "race"
    /\ tasks[p].pc = "run"
    /\ Len(tasks[p].buf) > 0
    /\ LET i == Head(tasks[p].buf)
           q == promises[tasks[p].ins[i]]
           losers == { tasks[p].ins[j] : j \in 1..Len(tasks[p].ins) \ {i} }
       IN tasks' = [t \in DOMAIN tasks |->
                      IF t = p
                      THEN [tasks[p] EXCEPT !.pc = "ret", !.buf = Tail(@), !.idx = i,
                                            !.rv = q.value, !.re = q.err]
                      ELSE IF t \in losers /\ tasks[t].pc = "run"
                           THEN [tasks[t] EXCEPT !.pc = "exit"]
                           ELSE tasks[t]]
    /\ UNCHANGED <<promises, chans, waiting, awaited, forced, now, outside>>

\* (mutant: when its winner is rejected, Race's closure returns an error of
\* its own)
RaceRun_OwnError(p) ==
    /\ tasks[p].kind = "race"
    /\ tasks[p].pc = "run"
    /\ Len(tasks[p].buf) > 0
    /\ LET i == Head(tasks[p].buf)
           q == promises[tasks[p].ins[i]]
       IN SetTask(p, [tasks[p] EXCEPT !.pc = "ret", !.buf = Tail(@), !.idx = i,
                                      !.rv = q.value,
                                      !.re = IF q.err # Nil THEN "promise rejected"
                                                        ELSE Nil])
    /\ UNCHANGED <<promises, chans, waiting, awaited, forced, now, outside>>

\* (mutant: with no promise passed the closure returns the zero value at
\* once)
RaceRun_EmptyReturns(p) ==
    /\ tasks[p].kind = "race"
    /\ tasks[p].pc = "run"
    /\ IF Len(tasks[p].ins) = 0
       THEN SetTask(p, [tasks[p] EXCEPT !.pc = "ret", !.rv = Zero, !.re = Nil])
       ELSE /\ Len(tasks[p].buf) > 0
            /\ LET i == Head(tasks[p].buf)
                   q == promises[tasks[p].ins[i]]
               IN SetTask(p, [tasks[p] EXCEPT !.pc = "ret", !.buf = Tail(@), !.idx = i,
                                              !.rv = q.value, !.re = q.err])
    /\ UNCHANGED <<promises, chans, waiting, awaited, forced, now, outside>>

\* Race's closure: idx := <-ch; return promises[idx].value, promises[idx].err
RaceRun(p) ==
    /\ tasks[p].kind = "race"
    /\ tasks[p].pc = "run"
    /\ Len(tasks[p].buf) > 0
    /\ LET i == Head(tasks[p].buf)
           q == promises[tasks[p].ins[i]]
       IN SetTask(p, [tasks[p] EXCEPT !.pc = "ret", !.buf = Tail(@), !.idx = i,
                                      !.rv = q.value, !.re = q.err])
    /\ UNCHANGED <<promises, chans, waiting, awaited, forced, now, outside>>

\* (mutant: All's loop stores the values in the order in which the indices
\* arrive)
AllRecv_InOrderOfArrival(p) ==
    /\ tasks[p].kind = "all"
    /\ tasks[p].pc = "run"
    /\ tasks[p].got < Len(tasks[p].ins)
    /\ Len(tasks[p].buf) > 0
    /\ LET i == Head(tasks[p].buf)
           q == tasks[p].ins[i]
       IN /\ IsClosed(Done(q))
          /\ IF promises[q].err # Nil
             THEN SetTask(p, [tasks[p] EXCEPT !.pc = "ret", !.buf = Tail(@), !.got = @ + 1,
                                              !.rv = NilSlice, !.re = promises[q].err])
             ELSE SetTask(p, [tasks[p] EXCEPT !.buf = Tail(@), !.got = @ + 1,
                                              !.results.elems[tasks[p].got + 1] = promises[q].value])
    /\ UNCHANGED <<promises, chans, waiting, awaited, forced, now, outside>>

\* (mutant: All's loop starts on the indices when every promise passed is
\* Completed)
AllRecv_WaitsForAll(p) ==
    /\ tasks[p].kind = "all"
    /\ tasks[p].pc = "run"
    /\ tasks[p].got < Len(tasks[p].ins)
    /\ Len(tasks[p].buf) > 0
    /\ \A j \in 1..Len(tasks[p].ins) : IsClosed(Done(tasks[p].ins[j]))
    /\ LET i == Head(tasks[p].buf)
           q == tasks[p].ins[i]
       IN /\ IsClosed(Done(q))
          /\ IF promises[q].err # Nil
             THEN SetTask(p, [tasks[p] EXCEPT !.pc = "ret", !.buf = Tail(@), !.got = @ + 1,
                                              !.rv = NilSlice, !.re = promises[q].err])
             ELSE SetTask(p, [tasks[p] EXCEPT !.buf = Tail(@), !.got = @ + 1,
                                              !.results.elems[i] = promises[q].value])
    /\ UNCHANGED <<promises, chans, waiting, awaited, forced, now, outside>>

\* (mutant: All's loop does not look at the error and stores the value)
AllRecv_IgnoresError(p) ==
    /\ tasks[p].kind = "all"
    /\ tasks[p].pc = "run"
    /\ tasks[p].got < Len(tasks[p].ins)
    /\ Len(tasks[p].buf) > 0
    /\ LET i == Head(tasks[p].buf)
           q == tasks[p].ins[i]
       IN /\ IsClosed(Done(q))
          /\ SetTask(p, [tasks[p] EXCEPT !.buf = Tail(@), !.got = @ + 1,
                                         !.results.elems[i] = promises[q].value])
    /\ UNCHANGED <<promises, chans, waiting, awaited, forced, now, outside>>

\* (mutant: on an error All's loop returns the error of the first rejected
\* promise in the order in which the promises were passed)
AllRecv_ErrorInInputOrder(p) ==
    /\ tasks[p].kind = "all"
    /\ tasks[p].pc = "run"
    /\ tasks[p].got < Len(tasks[p].ins)
    /\ Len(tasks[p].buf) > 0
    /\ LET i == Head(tasks[p].buf)
           q == tasks[p].ins[i]
           rejected == { j \in 1..Len(tasks[p].ins) :
                           /\ IsClosed(Done(tasks[p].ins[j]))
                           /\ promises[tasks[p].ins[j]].err # Nil }
           first == CHOOSE j \in rejected : \A k \in rejected : j <= k
       IN /\ IsClosed(Done(q))
          /\ IF promises[q].err # Nil
             THEN SetTask(p, [tasks[p] EXCEPT !.pc = "ret", !.buf = Tail(@), !.got = @ + 1,
                                              !.rv = NilSlice,
                                              !.re = promises[tasks[p].ins[first]].err])
             ELSE SetTask(p, [tasks[p] EXCEPT !.buf = Tail(@), !.got = @ + 1,
                                              !.results.elems[i] = promises[q].value])
    /\ UNCHANGED <<promises, chans, waiting, awaited, forced, now, outside>>

\* (mutant: on an error All's loop returns an error of its own that wraps
\* the error of the promise)
AllRecv_WrapsError(p) ==
    /\ tasks[p].kind = "all"
    /\ tasks[p].pc = "run"
    /\ tasks[p].got < Len(tasks[p].ins)
    /\ Len(tasks[p].buf) > 0
    /\ LET i == Head(tasks[p].buf)
           q == tasks[p].ins[i]
       IN /\ IsClosed(Done(q))
          /\ IF promises[q].err # Nil
             THEN SetTask(p, [tasks[p] EXCEPT !.pc = "ret", !.buf = Tail(@), !.got = @ + 1,
                                              !.rv = NilSlice,
                                              !.re = "all: " \o promises[q].err])
             ELSE SetTask(p, [tasks[p] EXCEPT !.buf = Tail(@), !.got = @ + 1,
                                              !.results.elems[i] = promises[q].value])
    /\ UNCHANGED <<promises, chans, waiting, awaited, forced, now, outside>>

\* (mutant: the channel is closed on the way out of the closure, on the
\* error return as well)
AllRecv_ClosesOnError(p) ==
    /\ tasks[p].kind = "all"
    /\ tasks[p].pc = "run"
    /\ tasks[p].got < Len(tasks[p].ins)
    /\ Len(tasks[p].buf) > 0
    /\ LET i == Head(tasks[p].buf)
           q == tasks[p].ins[i]
       IN /\ IsClosed(Done(q))
          /\ IF promises[q].err # Nil
             THEN SetTask(p, [tasks[p] EXCEPT !.pc = "ret", !.buf = Tail(@), !.got = @ + 1,
                                              !.bufClosed = TRUE,
                                              !.rv = NilSlice, !.re = promises[q].err])
             ELSE SetTask(p, [tasks[p] EXCEPT !.buf = Tail(@), !.got = @ + 1,
                                              !.results.elems[i] = promises[q].value])
    /\ UNCHANGED <<promises, chans, waiting, awaited, forced, now, outside>>

\* One round of All's loop: idx := <-promiseIdx; v, err := promises[idx].Await();
\* if err != nil { return nil, err }; results[idx] = v
AllRecv(p) ==
    /\ tasks[p].kind = "all"
    /\ tasks[p].pc = "run"
    /\ tasks[p].got < Len(tasks[p].ins)
    /\ Len(tasks[p].buf) > 0
    /\ LET i == Head(tasks[p].buf)
           q == tasks[p].ins[i]
       IN /\ IsClosed(Done(q))
          /\ IF promises[q].err # Nil
             THEN SetTask(p, [tasks[p] EXCEPT !.pc = "ret", !.buf = Tail(@), !.got = @ + 1,
                                              !.rv = NilSlice, !.re = promises[q].err])
             ELSE SetTask(p, [tasks[p] EXCEPT !.buf = Tail(@), !.got = @ + 1,
                                              !.results.elems[i] = promises[q].value])
    /\ UNCHANGED <<promises, chans, waiting, awaited, forced, now, outside>>

\* (mutant: the loop receives an index before it tests its condition)
AllFinish_AfterAReceive(p) ==
    /\ tasks[p].kind = "all"
    /\ tasks[p].pc = "run"
    /\ tasks[p].got = Len(tasks[p].ins)
    /\ tasks[p].got > 0
    /\ SetTask(p, [tasks[p] EXCEPT !.pc = "ret", !.bufClosed = TRUE,
                                   !.rv = tasks[p].results, !.re = Nil])
    /\ UNCHANGED <<promises, chans, waiting, awaited, forced, now, outside>>

\* The end of All's loop (i == len(promises)): close(promiseIdx); return results, nil
AllFinish(p) ==
    /\ tasks[p].kind = "all"
    /\ tasks[p].pc = "run"
    /\ tasks[p].got = Len(tasks[p].ins)
    /\ SetTask(p, [tasks[p] EXCEPT !.pc = "ret", !.bufClosed = TRUE,
                                   !.rv = tasks[p].results, !.re = Nil])
    /\ UNCHANGED <<promises, chans, waiting, awaited, forced, now, outside>>

\* (mutant: Timeout's closure returns without sleeping)
TimeoutRun_NoSleep(p) ==
    /\ tasks[p].kind = "timeout"
    /\ tasks[p].pc = "run"
    /\ SetTask(p, [tasks[p] EXCEPT !.pc = "ret", !.rv = Zero, !.re = ErrDeadlineExceeded])
    /\ UNCHANGED <<promises, chans, waiting, awaited, forced, now, outside>>

\* Timeout's closure: var t T; time.Sleep(duration); return t, os.ErrDeadlineExceeded.
\* Sleep returns when at least the duration has passed.
TimeoutRun(p) ==
    /\ tasks[p].kind = "timeout"
    /\ tasks[p].pc = "run"
    /\ now >= tasks[p].wake
    /\ SetTask(p, [tasks[p] EXCEPT !.pc = "ret", !.rv = Zero, !.re = ErrDeadlineExceeded])
    /\ UNCHANGED <<promises, chans, waiting, awaited, forced, now, outside>>

\* Time passes.  Only a goroutine in time.Sleep reads the clock, so the
\* clock is followed while one of them has its duration still to wait.
Tick ==
    /\ \E p \in Ids : /\ tasks[p].kind = "timeout"
                       /\ tasks[p].pc = "run"
                       /\ now < tasks[p].wake
    /\ now' = now + 1
    /\ UNCHANGED <<promises, chans, tasks, waiting, awaited, forced, outside>>

\* ------------------------------------------------------- resolve / reject
\* (mutant: the finished check is missing)
alreadyFinished_NoCheck(pr) == FALSE

\* if p.finished { return }
alreadyFinished(pr) == pr.finished

\* (mutant: the value is stored beside the error)
writePayload_Both(pr, v, e) == [pr EXCEPT !.value = v, !.err = e]

\* p.value = v (resolve) or p.err = err (reject): New calls reject when the
\* returned error is not nil and resolve otherwise.
writePayload(pr, v, e) ==
    IF e # Nil THEN [pr EXCEPT !.err = e] ELSE [pr EXCEPT !.value = v]

\* p.finished = true
setFinished(pr) == [pr EXCEPT !.finished = TRUE]

\* (mutant: the channel is never closed)
close_Forgotten(ch) == UNCHANGED chans

\* close(ch)
close(ch) == chans' = [chans EXCEPT ![ch] = @ + 1]

\* if err != nil { p.reject(err) } else { p.resolve(v) }: the call, up to
\* and including p.finished = true (or the early return).
Complete(p) ==
    /\ tasks[p].pc = "ret"
    /\ IF alreadyFinished(promises[p])
       THEN /\ SetTask(p, [tasks[p] EXCEPT !.pc = "exit", !.calls = @ + 1])
            /\ UNCHANGED promises
       ELSE /\ SetTask(p, [tasks[p] EXCEPT !.pc = "close", !.calls = @ + 1])
            /\ promises' = [promises EXCEPT ![p] =
                    setFinished(writePayload(@, tasks[p].rv, tasks[p].re))]
    /\ UNCHANGED <<chans, waiting, awaited, forced, now, outside>>

\* (mutant: instead of closing the channel of the promise, resolve and
\* reject put the shared closed channel in its place)
Close_SwapsChannel(p) ==
    /\ tasks[p].pc = "close"
    /\ promises' = [promises EXCEPT ![p].done = closedChan]
    /\ SetTask(p, [tasks[p] EXCEPT !.pc = "exit"])
    /\ UNCHANGED <<chans, waiting, awaited, forced, now, outside>>

\* (mutant: the else is missing in New's goroutine, which calls resolve
\* after reject when the unit of work returned an error)
Close_NoElse(p) ==
    /\ tasks[p].pc = "close"
    /\ close(promises[p].done)
    /\ SetTask(p, [tasks[p] EXCEPT
            !.pc = IF tasks[p].re # Nil /\ tasks[p].calls = 1 THEN "ret" ELSE "exit"])
    /\ UNCHANGED <<promises, waiting, awaited, forced, now, outside>>

\* close(p.done), the last statement of resolve and of reject.
Close(p) ==
    /\ tasks[p].pc = "close"
    /\ close(promises[p].done)
    /\ SetTask(p, [tasks[p] EXCEPT !.pc = "exit"])
    /\ UNCHANGED <<promises, waiting, awaited, forced, now, outside>>

\* (mutant: resolve and reject close the channel first and write the payload
\* and the flag afterwards)
Settle_CloseFirst(p) ==
    \/ /\ tasks[p].pc = "ret"
       /\ ~alreadyFinished(promises[p])
       /\ close(promises[p].done)
       /\ SetTask(p, [tasks[p] EXCEPT !.pc = "close", !.calls = @ + 1])
       /\ UNCHANGED <<promises, waiting, awaited, forced, now, outside>>
    \/ /\ tasks[p].pc = "close"
       /\ promises' = [promises EXCEPT ![p] =
               setFinished(writePayload(@, tasks[p].rv, tasks[p].re))]
       /\ SetTask(p, [tasks[p] EXCEPT !.pc = "exit"])
       /\ UNCHANGED <<chans, waiting, awaited, forced, now, outside>>

\* resolve and reject, statement by statement.
Settle(p) == Complete(p) \/ Close(p)

\* ------------------------------------------------------------------ Await
\* The Await calls made so far: those that returned and those still blocked.
awaitCalls == LET n[i \in 0..np] ==
                      IF i = 0 THEN 0 ELSE n[i - 1] + Len(awaited[i]) + waiting[i]
              IN n[np]

\* return p.value, p.err
AwaitResult(p) == <<promises[p].value, promises[p].err>>

\* (mutant: Await gives up waiting and returns the fields as they are)
Await_GivesUp(p) ==
    /\ awaitCalls < MaxAwait
    /\ awaited' = [awaited EXCEPT ![p] = Append(@, AwaitResult(p))]
    /\ UNCHANGED <<promises, chans, tasks, waiting, forced, now, outside>>

\* p.Await(), the call and its return in one step: <-p.Done() returns, which
\* it does in a state in which the channel is closed, whenever the call was
\* made, and the call returns the fields as they are then.
Await(p) ==
    /\ awaitCalls < MaxAwait
    /\ IsClosed(Done(p))
    /\ awaited' = [awaited EXCEPT ![p] = Append(@, AwaitResult(p))]
    /\ UNCHANGED <<promises, chans, tasks, waiting, forced, now, outside>>

\* p.Await() in two steps.  The call: a consumer enters <-p.Done().
AwaitCall(p) ==
    /\ awaitCalls < MaxAwait
    /\ waiting' = [waiting EXCEPT ![p] = @ + 1]
    /\ UNCHANGED <<promises, chans, tasks, awaited, forced, now, outside>>

\* (mutant: Await returns the fields without the receive on p.Done())
AwaitReturn_NoReceive(p) ==
    /\ waiting[p] > 0
    /\ waiting' = [waiting EXCEPT ![p] = @ - 1]
    /\ awaited' = [awaited EXCEPT ![p] = Append(@, AwaitResult(p))]
    /\ UNCHANGED <<promises, chans, tasks, forced, now, outside>>

\* (mutant: completion is a single value in the channel, which the receive
\* of the first consumer takes away)
AwaitReturn_TakesSignal(p) ==
    /\ waiting[p] > 0
    /\ IsClosed(Done(p))
    /\ waiting' = [waiting EXCEPT ![p] = @ - 1]
    /\ awaited' = [awaited EXCEPT ![p] = Append(@, AwaitResult(p))]
    /\ chans' = [chans EXCEPT ![Done(p)] = 0]
    /\ UNCHANGED <<promises, tasks, forced, now, outside>>

\* The return: the receive of a consumer in <-p.Done() returns, the channel
\* being closed, and Await returns the fields.
AwaitReturn(p) ==
    /\ waiting[p] > 0
    /\ IsClosed(Done(p))
    /\ waiting' = [waiting EXCEPT ![p] = @ - 1]
    /\ awaited' = [awaited EXCEPT ![p] = Append(@, AwaitResult(p))]
    /\ UNCHANGED <<promises, chans, tasks, forced, now, outside>>

\* ------------------------------------------- a second completion attempt
\* A further call p.resolve(v) (e = Nil) or p.reject(e) on a promise that is
\* already Completed, as a defensive caller inside the package may make.
Forced(p, v, e) ==
    /\ promises[p].finished
    /\ forced' = p
    /\ IF alreadyFinished(promises[p])
       THEN UNCHANGED <<promises, chans>>
       ELSE /\ promises' = [promises EXCEPT ![p] = setFinished(writePayload(@, v, e))]
            /\ close(promises[p].done)
    /\ UNCHANGED <<tasks, waiting, awaited, now, outside>>

\* ------------------------------------------------------------ the program
\* The promises of type Promise[T]; the promise of an All is a Promise[[]T],
\* which the compiler accepts neither as the receiver of Then with a
\* transform on T nor beside a Promise[T] in the arguments of Race and All.
Typed == { p \in Ids : tasks[p].kind # "all" }

Create ==
    \/ NewWork
    \/ \E v \in ResolveArgs : Resolve(v)
    \/ \E e \in RejectArgs : Reject(e)
    \/ \E p \in Typed, t \in Transforms : Then(p, t)

\* The steps of the goroutine of promise p.
Step(p) ==
    \/ \E r \in WorkReturns : WorkReturn(p, r)
    \/ ThenRun(p)
    \/ Settle(p)

\* The lists of promises the client passes to Race and to All: promises it
\* holds, each at most once, in any order.
Lists ==
    { ps \in UNION { [1..k -> Typed] : k \in 0..np } :
        \A i, j \in DOMAIN ps : i # j => ps[i] # ps[j] }

\* The durations the client passes to Timeout, in ticks.
Durations == 1..MaxSleep

\* The client creates a Race, an All or a Timeout (the lists are looked at
\* only while the client may still create a promise).
Compose ==
    \/ np < MaxPromises /\ \E ps \in Lists : Race(ps)
    \/ np < MaxPromises /\ \E ps \in Lists : All(ps)
    \/ \E d \in Durations : Timeout(d)

\* The steps of the goroutines of a Race, All or Timeout promise p.
StepComposed(p) ==
    \/ \E i \in 1..Len(tasks[p].ins) : Report(p, i)
    \/ RaceRun(p)
    \/ AllRecv(p)
    \/ AllFinish(p)
    \/ TimeoutRun(p)

Next ==
    \/ Create
    \/ \E p \in Ids : Step(p)
    \/ \E p \in Ids : Await(p)

Spec == Init /\ [][Next]_vars

\* The client program with every constructor and every consumer of the
\* package: Await, Then, Race and All.
NextConsume ==
    \/ Create
    \/ Compose
    \/ \E p \in Ids : Step(p)
    \/ \E p \in Ids : StepComposed(p)
    \/ Tick
    \/ \E p \in Ids : Await(p)

SpecConsume == Init /\ [][NextConsume]_vars

\* A client program whose consumers are followed from the call of Await,
\* through the time they are blocked, to the return.
NextAwait ==
    \/ np < MaxWatched /\ Create
    \/ \E p \in Ids : Step(p)
    \/ \E p \in Ids : AwaitCall(p)
    \/ \E p \in Ids : AwaitReturn(p)

SpecAwait == Init /\ [][NextAwait]_vars

\* The scheduler runs every goroutine that can run: the goroutine of a
\* promise whose unit of work has returned (or, for Then's closure, whose
\* receive can return) goes on, and so does a consumer whose receive can
\* return.  Nothing makes a client function return, and nothing makes the
\* client create promises or call Await.
Fairness(n) ==
    \A p \in 1..n :
        /\ WF_vars(p \in Ids /\ (ThenRun(p) \/ Settle(p)))
        /\ WF_vars(p \in Ids /\ AwaitReturn(p))

FairAwait == SpecAwait /\ Fairness(MaxWatched)

\* The client program and the goroutines alone, fairly scheduled.
NextThen ==
    \/ Create
    \/ \E p \in Ids : Step(p)

FairThen == Init /\ [][NextThen]_vars /\ Fairness(MaxPromises)

\* A client program that handles the errors of its promises in Then,
\* fairly scheduled.
NextErrors ==
    \/ NewWork
    \/ \E v \in ResolveArgs : Resolve(v)
    \/ \E e \in RejectArgs : Reject(e)
    \/ \E p \in Typed, t \in ErrorTransforms : Then(p, t)
    \/ \E p \in Ids : Step(p)

FairErrors == Init /\ [][NextErrors]_vars /\ Fairness(MaxPromises)

\* A client program that races its promises.
NextRace ==
    \/ NewWork
    \/ \E v \in ResolveArgs : Resolve(v)
    \/ \E e \in RejectArgs : Reject(e)
    \/ np < MaxPromises /\ \E ps \in Lists : Race(ps)
    \/ \E p \in Ids, r \in WorkReturns : WorkReturn(p, r)
    \/ \E p \in Ids : Settle(p)
    \/ \E p \in Ids : \E i \in 1..Len(tasks[p].ins) : Report(p, i)
    \/ \E p \in Ids : RaceRun(p)

SpecRace == Init /\ [][NextRace]_vars

\* A client program that collects its promises with All.
NextAll ==
    \/ NewWork
    \/ \E v \in ResolveArgs : Resolve(v)
    \/ \E e \in RejectArgs : Reject(e)
    \/ np < MaxPromises /\ \E ps \in Lists : All(ps)
    \/ \E p \in Ids, r \in AllReturns : WorkReturn(p, r)
    \/ \E p \in Ids : Settle(p)
    \/ \E p \in Ids : \E i \in 1..Len(tasks[p].ins) : Report(p, i)
    \/ \E p \in Ids : AllRecv(p)
    \/ \E p \in Ids : AllFinish(p)

SpecAll == Init /\ [][NextAll]_vars

\* The scheduler runs the goroutines of a Race or All promise that can run:
\* an observer whose promise is Completed sends its index, the closure goes
\* on when an index is in the channel or its loop is at its end, and the
\* goroutine of New goes on when the closure has returned.  The condition
\* asks less than the scheduler gives: that of the goroutines of one
\* promise that can run, one eventually does.
ObserverFairness(n) ==
    \A p \in 1..n :
        WF_vars(p \in Ids /\ (\/ Settle(p)
                               \/ \E i \in 1..n : Report(p, i)
                               \/ RaceRun(p) \/ AllRecv(p) \/ AllFinish(p)))

FairAll == SpecAll /\ ObserverFairness(MaxPromises)

\* A client program that passes its promises to Race and to All, fairly
\* scheduled (no unit of work is made to return).
NextObservers ==
    \/ NewWork
    \/ \E v \in ResolveArgs : Resolve(v)
    \/ \E e \in RejectArgs : Reject(e)
    \/ np < MaxPromises /\ \E ps \in Lists : Race(ps)
    \/ np < MaxPromises /\ \E ps \in Lists : All(ps)
    \/ \E p \in Ids, r \in WorkReturns : WorkReturn(p, r)
    \/ \E p \in Ids : Settle(p)
    \/ \E p \in Ids : \E i \in 1..Len(tasks[p].ins) : Report(p, i)
    \/ \E p \in Ids : RaceRun(p)
    \/ \E p \in Ids : AllRecv(p)
    \/ \E p \in Ids : AllFinish(p)

SpecObservers == Init /\ [][NextObservers]_vars

FairObservers == SpecObservers /\ ObserverFairness(MaxPromises)

\* Time passes, and a goroutine in time.Sleep goes on once its duration has
\* passed.
TimerFairness(n) ==
    /\ WF_vars(Tick)
    /\ \A p \in 1..n : WF_vars(p \in Ids /\ TimeoutRun(p))

\* Race(Timeout(d), New(work)): the lists of a Timeout promise and the
\* promise of a unit of work, in either order.
Bounded ==
    { ps \in [1..2 -> Ids] :
        {tasks[ps[1]].kind, tasks[ps[2]].kind} = {"timeout", "work"} }

\* A client program that bounds its units of work: it races them against
\* Timeout promises.
NextTimeout ==
    \/ NewWork
    \/ \E d \in Durations : Timeout(d)
    \/ \E ps \in Bounded : Race(ps)
    \/ \E p \in Ids, r \in WorkReturns : WorkReturn(p, r)
    \/ \E p \in Ids : Settle(p)
    \/ \E p \in Ids : \E i \in 1..Len(tasks[p].ins) : Report(p, i)
    \/ \E p \in Ids : RaceRun(p)
    \/ \E p \in Ids : TimeoutRun(p)
    \/ Tick

SpecTimeout == Init /\ [][NextTimeout]_vars

FairTimeout == SpecTimeout /\ ObserverFairness(MaxPromises) /\ TimerFairness(MaxPromises)

\* The lists of two promises, one of them that of a unit of work and the
\* other that of a unit of work or of Timeout, in either order.
Operands ==
    { ps \in [1..2 -> Ids] :
        /\ ps[1] # ps[2]
        /\ "work" \in {tasks[ps[1]].kind, tasks[ps[2]].kind}
        /\ {tasks[ps[1]].kind, tasks[ps[2]].kind} \subseteq {"work", "timeout"} }

\* A client program that composes each unit of work with another promise
\* in a Race or an All.
NextCompose ==
    \/ NewWork
    \/ \E d \in Durations : Timeout(d)
    \/ \E ps \in Operands : Race(ps)
    \/ \E ps \in Operands : All(ps)
    \/ \E p \in Ids, r \in WorkReturns : WorkReturn(p, r)
    \/ \E p \in Ids : Settle(p)
    \/ \E p \in Ids : StepComposed(p)
    \/ Tick

SpecCompose == Init /\ [][NextCompose]_vars

\* The promises the client made by New over a unit of work, and the lists
\* of them it passes to Race and to All: each at most once, in any order.
WorkPromises == { p \in Ids : tasks[p].kind = "work" }

WorkLists ==
    { ps \in UNION { [1..k -> WorkPromises] : k \in 1..np } :
        \A i, j \in DOMAIN ps : i # j => ps[i] # ps[j] }

\* A client program that makes promises by New over units of work and
\* consumes them in every way the package offers: Await, Then (with the
\* transform of the package's example), Race and All.
NextNew ==
    \/ NewWork
    \/ \E p \in WorkPromises : Then(p, "World")
    \/ np < MaxPromises /\ \E ps \in WorkLists : Race(ps)
    \/ np < MaxPromises /\ \E ps \in WorkLists : All(ps)
    \/ \E p \in Ids : Step(p)
    \/ \E p \in Ids : \E i \in 1..Len(tasks[p].ins) : Report(p, i)
    \/ \E p \in Ids : RaceRun(p)
    \/ \E p \in Ids : AllRecv(p)
    \/ \E p \in Ids : AllFinish(p)
    \/ \E p \in WorkPromises : Await(p)

SpecNew == Init /\ [][NextNew]_vars

\* The program with, in addition, second completion attempts.
NextForced ==
    \/ Create
    \/ Compose
    \/ \E p \in Ids : Step(p)
    \/ \E p \in Ids : StepComposed(p)
    \/ Tick
    \/ \E p \in Ids, v \in ResolveArgs : Forced(p, v, Nil)
    \/ \E p \in Ids, e \in RejectArgs : Forced(p, Zero, e)

SpecForced == Init /\ [][NextForced]_vars

\* ============================================ TimeoutFn and TimeoutFnErr
\* What the function passed to TimeoutFn returns (a + b in the test), and
\* what the function passed to TimeoutFnErr returns.
FnReturns == {"111"}
FnErrReturns == {<<"resp", Nil>>, <<Zero, "request failed">>}

\* A call of TimeoutFn or TimeoutFnErr (kind).  pc: where the caller stands,
\* "select" in the select statement, "recvErr" in err := <-errCh, "returned"
\* after the return.  gpc: where the goroutine stands, "run" in fn(), "send"
\* at ch <- r, "sendErr" at errCh <- err, "done" after its last statement.
\* deadline: the time at which the channel of time.After(duration) has its
\* value; val, err: what fn returned; late: fn returned when the duration
\* had passed; got: the value the caller received; ret: the pair returned.
FnCall(kind, d) ==
    [kind |-> kind, deadline |-> now + d, pc |-> "select", gpc |-> "run",
     val |-> Zero, err |-> Nil, late |-> FALSE, got |-> Zero, ret |-> <<Zero, Nil>>]

SetCall(c, r) == fns' = [fns EXCEPT ![c] = r]

\* TimeoutFn(duration, fn), up to the select statement: ch := make(chan T);
\* go func() { r := fn(); ch <- r }(); select { ... time.After(duration) }
TimeoutFn(d) ==
    /\ Len(fns) < MaxCalls
    /\ fns' = Append(fns, FnCall("TimeoutFn", d))
    /\ UNCHANGED <<promises, chans, tasks, waiting, awaited, forced, now, list, inserted, sets, setOp>>

\* TimeoutFnErr(duration, fn), up to the select statement.
TimeoutFnErr(d) ==
    /\ Len(fns) < MaxCalls
    /\ fns' = Append(fns, FnCall("TimeoutFnErr", d))
    /\ UNCHANGED <<promises, chans, tasks, waiting, awaited, forced, now, list, inserted, sets, setOp>>

\* The goroutine: r := fn() (val, err := fn()) returns; the goroutine is
\* then at its send on ch.  fn may also never return.
FnReturn(c, r) ==
    /\ fns[c].gpc = "run"
    /\ SetCall(c, [fns[c] EXCEPT !.gpc = "send", !.val = r[1], !.err = r[2],
                                 !.late = now >= fns[c].deadline])
    /\ UNCHANGED <<promises, chans, tasks, waiting, awaited, forced, now, list, inserted, sets, setOp>>

\* case ret := <-ch (case val := <-ch): ch is unbuffered, so the send of the
\* goroutine and the receive of the caller happen together; TimeoutFn then
\* returns ret, nil, and TimeoutFnErr goes on to err := <-errCh while the
\* goroutine goes on to errCh <- err.
Deliver(c) ==
    /\ fns[c].pc = "select"
    /\ fns[c].gpc = "send"
    /\ IF fns[c].kind = "TimeoutFn"
       THEN SetCall(c, [fns[c] EXCEPT !.pc = "returned", !.gpc = "done",
                                      !.got = fns[c].val,
                                      !.ret = <<fns[c].val, Nil>>])
       ELSE SetCall(c, [fns[c] EXCEPT !.pc = "recvErr", !.gpc = "sendErr",
                                      !.got = fns[c].val])
    /\ UNCHANGED <<promises, chans, tasks, waiting, awaited, forced, now, list, inserted, sets, setOp>>

\* TimeoutFnErr: err := <-errCh; return val, err, together with the send of
\* the goroutine on errCh.
DeliverErr(c) ==
    /\ fns[c].pc = "recvErr"
    /\ fns[c].gpc = "sendErr"
    /\ SetCall(c, [fns[c] EXCEPT !.pc = "returned", !.gpc = "done",
                                 !.ret = <<fns[c].got, fns[c].err>>])
    /\ UNCHANGED <<promises, chans, tasks, waiting, awaited, forced, now, list, inserted, sets, setOp>>

\* (mutant: the timer case is taken before the duration has passed)
Expire_BeforeDeadline(c) ==
    /\ fns[c].pc = "select"
    /\ SetCall(c, [fns[c] EXCEPT !.pc = "returned", !.ret = <<Zero, ErrDeadlineExceeded>>])
    /\ UNCHANGED <<promises, chans, tasks, waiting, awaited, forced, now, list, inserted, sets, setOp>>

\* case <-time.After(duration): var r T; return r, os.ErrDeadlineExceeded.
\* The case can be taken once the duration has passed; select takes one of
\* the cases that can proceed.
Expire(c) ==
    /\ fns[c].pc = "select"
    /\ now >= fns[c].deadline
    /\ SetCall(c, [fns[c] EXCEPT !.pc = "returned", !.ret = <<Zero, ErrDeadlineExceeded>>])
    /\ UNCHANGED <<promises, chans, tasks, waiting, awaited, forced, now, list, inserted, sets, setOp>>

\* Time passes while a caller waits in select for its timer.
FnTick ==
    /\ \E c \in DOMAIN fns : fns[c].pc = "select" /\ now < fns[c].deadline
    /\ now' = now + 1
    /\ UNCHANGED <<promises, chans, tasks, waiting, awaited, forced, outside>>

\* A client program that calls functions with a timeout.
NextTimeoutFn ==
    \/ \E d \in Durations : TimeoutFn(d)
    \/ \E d \in Durations : TimeoutFnErr(d)
    \/ \E c \in DOMAIN fns, r \in FnReturns :
          fns[c].kind = "TimeoutFn" /\ FnReturn(c, <<r, Nil>>)
    \/ \E c \in DOMAIN fns, r \in FnErrReturns :
          fns[c].kind = "TimeoutFnErr" /\ FnReturn(c, r)
    \/ \E c \in DOMAIN fns : Deliver(c)
    \/ \E c \in DOMAIN fns : DeliverErr(c)
    \/ \E c \in DOMAIN fns : Expire(c)
    \/ FnTick

SpecTimeoutFn == Init /\ [][NextTimeoutFn]_vars

\* Time passes, and a caller in select or in a receive goes on when one of
\* its cases can proceed.  Nothing makes fn return.
FairTimeoutFn ==
    /\ SpecTimeoutFn
    /\ WF_vars(FnTick)
    /\ \A c \in 1..MaxCalls :
          WF_vars(c \in DOMAIN fns /\ (Deliver(c) \/ DeliverErr(c) \/ Expire(c)))

\* ================================================================== List
\* type List[T comparable] []T.  A slice is a window on a backing array:
\* mem names the array, off is where the window starts in it, len and cap
\* are its length and capacity.  heap holds the arrays, by name.
slice(s, lo, hi) == [mem |-> s.mem, off |-> s.off + lo, len |-> hi - lo, cap |-> s.cap - lo]

\* The elements of the slice s, read from its array now.
elems(heap, s) == [i \in 1..s.len |-> heap[s.mem][s.off + i]]

\* The zero value of the element type.
ZeroElem == 0

\* append(s, vs...): with room in the array of s the values are written
\* into it, after the elements of s; without, a new and sufficiently large
\* array is allocated (spare: the room it has beyond what is needed) and
\* the elements of s and the values are copied into it.  The result is the
\* heap afterwards and the slice returned.
append(heap, s, vs, spare) ==
    IF s.len + Len(vs) <= s.cap
    THEN [heap |-> [heap EXCEPT ![s.mem] =
                       [i \in 1..Len(@) |->
                           IF i > s.off + s.len /\ i <= s.off + s.len + Len(vs)
                           THEN vs[i - s.off - s.len] ELSE @[i]]],
          s |-> [s EXCEPT !.len = @ + Len(vs)]]
    ELSE [heap |-> Append(heap, [i \in 1..(s.len + Len(vs) + spare) |->
                                    IF i <= s.len THEN heap[s.mem][s.off + i]
                                    ELSE IF i <= s.len + Len(vs) THEN vs[i - s.len]
                                    ELSE ZeroElem]),
          s |-> [mem |-> Len(heap) + 1, off |-> 0, len |-> s.len + Len(vs),
                 cap |-> s.len + Len(vs) + spare]]

\* func (l *List[T]) Insert(index int, vals ...T):
\*     before := (*l)[0:index]; after := (*l)[index:]
\*     *l = append(before, vals...); *l = append(*l, after...)
\* l is the list as its backing array and its length; after is read when
\* the second append copies it, from the array it is a window on.
Insert(l, index, vals, spare) ==
    LET heap0 == << l.arr >>
        self == [mem |-> 1, off |-> 0, len |-> l.len, cap |-> Len(l.arr)]
        before == slice(self, 0, index)
        after == slice(self, index, l.len)
        first == append(heap0, before, vals, spare)
        second == append(first.heap, first.s, elems(first.heap, after), spare)
    IN [arr |-> second.heap[second.s.mem], len |-> second.s.len]

\* The elements of the list l.
Elems(l) == SubSeq(l.arr, 1, l.len)

\* The lists the client starts from: List[int]{1, ..., n}, as a composite
\* literal or grown by Append, so without or with spare capacity.
Lists0 ==
    UNION { { [arr |-> [i \in 1..(n + g) |-> IF i <= n THEN i ELSE ZeroElem], len |-> n] :
                g \in 0..MaxSpare } : n \in 0..MaxLen }

\* The values the client passes to Insert: up to MaxVals of them.
ValLists == UNION { [1..k -> {8, 9}] : k \in 0..MaxVals }

\* The state after the client has made its list.
InitList ==
    /\ promises = << >>
    /\ chans = (closedChan :> 1)
    /\ tasks = << >>
    /\ waiting = << >>
    /\ awaited = << >>
    /\ forced = 0
    /\ now = 0
    /\ fns = << >>
    /\ list \in Lists0
    /\ inserted = NoInsert
    /\ sets = << >>
    /\ setOp = NoSetOp

\* list.Insert(index, vals...) with 0 <= index <= list.Len()
ListInsert(index, vals, spare) ==
    /\ list.len <= MaxLen
    /\ index \in 0..list.len
    /\ list' = Insert(list, index, vals, spare)
    /\ inserted' = [old |-> Elems(list), index |-> index, vals |-> vals, called |-> TRUE]
    /\ UNCHANGED <<promises, chans, tasks, waiting, awaited, forced, now, fns, sets, setOp>>

\* A client program that inserts values into its list.
NextList ==
    \E index \in 0..list.len, vals \in ValLists, spare \in 0..MaxSpare :
        ListInsert(index, vals, spare)

SpecList == InitList /\ [][NextList]_vars

\* =================================================================== Set
\* type Set[T comparable] map[T]struct{}: a map is modelled by the set of its
\* keys, the value struct{}{} carrying nothing.  for v := range m visits
\* every key of m once, in an order the language leaves open.
Keys == 1..MaxKey

\* (mutant: the loop runs over b and keeps what is not in a)
Difference_Reversed(a, b) ==
    LET RECURSIVE loop(_, _)
        loop(rest, diff) ==
            IF rest = {} THEN diff
            ELSE LET v == CHOOSE x \in rest : TRUE
                 IN loop(rest \ {v}, IF v \notin a THEN diff \cup {v} ELSE diff)
    IN loop(b, {})

\* func (a Set[T]) Difference(b Set[T]) Set[T]: diff := make(Set[T], len(a));
\* for v := range a { if _, found := b[v]; !found { diff[v] = struct{}{} } }
Difference(a, b) ==
    LET RECURSIVE loop(_, _)
        loop(rest, diff) ==
            IF rest = {} THEN diff
            ELSE LET v == CHOOSE x \in rest : TRUE
                 IN loop(rest \ {v}, IF v \notin b THEN diff \cup {v} ELSE diff)
    IN loop(a, {})

\* func (a Set[T]) Union(b Set[T]) Set[T]: union := make(Set[T]);
\* for k := range a { union[k] = struct{}{} }; for k := range b { ... }
Union(a, b) ==
    LET RECURSIVE loop(_, _)
        loop(rest, union) ==
            IF rest = {} THEN union
            ELSE LET k == CHOOSE x \in rest : TRUE
                 IN loop(rest \ {k}, union \cup {k})
    IN loop(b, loop(a, {}))

\* func (a Set[T]) Intersection(b Set[T]) Set[T]
Intersection(a, b) ==
    LET RECURSIVE loop(_, _)
        loop(rest, intersection) ==
            IF rest = {} THEN intersection
            ELSE LET v == CHOOSE x \in rest : TRUE
                 IN loop(rest \ {v}, IF v \in b THEN intersection \cup {v}
                                                ELSE intersection)
    IN loop(a, {})

\* The state after the client has made two sets with NewSet.
InitSet ==
    /\ promises = << >>
    /\ chans = (closedChan :> 1)
    /\ tasks = << >>
    /\ waiting = << >>
    /\ awaited = << >>
    /\ forced = 0
    /\ now = 0
    /\ fns = << >>
    /\ list = [arr |-> << >>, len |-> 0]
    /\ inserted = NoInsert
    /\ sets \in [1..2 -> SUBSET Keys]
    /\ setOp = NoSetOp

\* r := sets[i].Union(sets[j]) and the like: the receiver and the argument
\* are the maps the client made (possibly the same one); the map made by
\* the call joins them, and the call returns a reference to it.
SetOperation(op, i, j) ==
    /\ Len(sets) = 2
    /\ sets' = Append(sets, CASE op = "Union" -> Union(sets[i], sets[j])
                              [] op = "Intersection" -> Intersection(sets[i], sets[j])
                              [] op = "Difference" -> Difference(sets[i], sets[j]))
    /\ setOp' = [op |-> op, a |-> i, b |-> j, r |-> Len(sets) + 1, called |-> TRUE]
    /\ UNCHANGED <<promises, chans, tasks, waiting, awaited, forced, now, fns, list, inserted>>

\* sets[i].Add(v): (*s)[v] = struct{}{}, in place.
SetAdd(i, v) ==
    /\ sets' = [sets EXCEPT ![i] = @ \cup {v}]
    /\ UNCHANGED <<promises, chans, tasks, waiting, awaited, forced, now, fns, list,
                   inserted, setOp>>

\* A client program that combines its two sets and adds to its sets.
NextSet ==
    \/ \E i, j \in DOMAIN sets : SetOperation("Union", i, j)
    \/ \E i, j \in DOMAIN sets : SetOperation("Intersection", i, j)
    \/ \E i, j \in DOMAIN sets : SetOperation("Difference", i, j)
    \/ \E i \in DOMAIN sets, v \in Keys : SetAdd(i, v)

SpecSet == InitSet /\ [][NextSet]_vars

\* ================================================================ claims

\* C1: a promise, however constructed, goes from Pending to Completed at
\* most once and never back: once finished is set the struct (finished,
\* value, err) never changes again, also across a further resolve or reject
\* call, and no done channel is ever closed a second time.
C1_SingleCompletion ==
    [][\A p \in Ids :
          /\ promises[p].finished => promises'[p] = promises[p]
          /\ chans'[Done(p)] <= 1]_vars

\* A further reject or resolve call has returned on the promise of a Then,
\* which its goroutine had completed, and the fields still hold the
\* transform's outcome.
C1_Witness ==
    /\ forced # 0
    /\ tasks[forced].kind = "then"
    /\ tasks[forced].pc = "exit"
    /\ promises[forced] = [value |-> "Hello World", err |-> Nil, finished |-> TRUE,
                           done |-> forced]

\* What a promise of New holds once its unit of work has returned (v, e) and
\* the goroutine has completed it: resolved with v, or rejected with e.
Outcome(v, e) == IF e # Nil THEN <<Zero, e>> ELSE <<v, Nil>>

\* C2: all the Await calls on a promise that have returned, whether made
\* before or after the completion and in whatever order they returned,
\* returned the same (value, error) pair.
C2_AwaitSamePair ==
    \A p \in Ids : \A i, j \in 1..Len(awaited[p]) : awaited[p][i] = awaited[p][j]

\* Two Await calls have returned on a promise of New whose work failed.
C2_Witness ==
    \E p \in Ids :
        /\ tasks[p].kind = "work"
        /\ tasks[p].re # Nil
        /\ Len(awaited[p]) >= 2

\* C3: Await never returns while the promise is Pending: whenever an Await
\* call has returned, the promise is finished, its channel is closed, and
\* the pair returned is the pair the promise holds.
C3_AwaitAfterCompletion ==
    \A p \in Ids :
        Len(awaited[p]) > 0 =>
            /\ promises[p].finished
            /\ IsClosed(Done(p))
            /\ \A i \in 1..Len(awaited[p]) : awaited[p][i] = AwaitResult(p)

\* An Await call on a promise of New has returned the work's value while
\* another consumer is still inside Await on the same promise.
C3_Witness ==
    \E p \in Ids :
        /\ tasks[p].kind = "work"
        /\ awaited[p] = << <<"Hello", Nil>> >>
        /\ waiting[p] > 0

\* C4: once the unit of work of a promise of New has returned (v, e), the
\* promise is eventually Completed with that outcome (resolved with v when
\* e is nil, rejected with e otherwise), its channel closed, and no Await
\* call is left blocked on it.
C4_WorkCompletes ==
    \A p \in 1..MaxWatched :
        (p \in Ids /\ tasks[p].kind = "work" /\ tasks[p].pc = "ret")
            ~> (/\ p \in Ids
                /\ promises[p].finished
                /\ IsClosed(Done(p))
                /\ tasks[p].re = Nil => AwaitResult(p) = <<tasks[p].rv, Nil>>
                /\ tasks[p].re # Nil => promises[p].err = tasks[p].re
                /\ waiting[p] = 0)

\* The work of a promise of New failed, the promise is rejected with the
\* work's error, and the two Await calls that were made on it have returned.
C4_Witness ==
    \E p \in Ids :
        /\ tasks[p].kind = "work"
        /\ tasks[p].pc = "exit"
        /\ tasks[p].re # Nil
        /\ promises[p].finished
        /\ promises[p].err = tasks[p].re
        /\ waiting[p] = 0
        /\ Len(awaited[p]) = 2

\* C6: a promise of Resolve or Reject is Completed from its creation on, on
\* the closed closedChan, and has no goroutine; a consumer inside Await on it
\* can return at once, and Await returns (v, nil) for Resolve(v) and
\* (zero value, e) for Reject(e).
C6_Immediate ==
    \A p \in Ids :
        tasks[p].kind \in {"resolved", "rejected"} =>
            /\ promises[p].finished
            /\ Done(p) = closedChan
            /\ IsClosed(Done(p))
            /\ tasks[p].pc = "exit" /\ tasks[p].invoked = 0 /\ tasks[p].calls = 0
            /\ waiting[p] > 0 => ENABLED AwaitReturn(p)
            /\ \A i \in 1..Len(awaited[p]) :
                  awaited[p][i] = IF tasks[p].kind = "resolved"
                                  THEN <<tasks[p].rv, Nil>>
                                  ELSE <<Zero, tasks[p].re>>

\* Await has returned ("Hello", nil) on a promise of Resolve("Hello") and
\* ("", "blerg") on a promise of Reject("blerg").
C6_Witness ==
    \E p, q \in Ids :
        /\ tasks[p].kind = "resolved" /\ awaited[p] = << <<"Hello", Nil>> >>
        /\ tasks[q].kind = "rejected" /\ awaited[q] = << <<Zero, "blerg">> >>

\* C5: the unit of work passed to New is called exactly once, whatever is
\* done with the promise afterwards (Await and Then calls, Race and All over
\* it): the function of a promise of New, and the closure of a Race, an All
\* or a Timeout, has been called once, the transform of a promise of Then
\* once when its closure has got past the receive and not before, and a
\* promise of Resolve or Reject has no function.
C5_InvokedOnce ==
    \A p \in Ids :
        tasks[p].invoked = CASE tasks[p].kind \in {"resolved", "rejected"} -> 0
                             [] tasks[p].kind = "then" ->
                                    IF tasks[p].pc = "run" THEN 0 ELSE 1
                             [] OTHER -> 1

\* Two Await calls have returned on a promise of New, and a Race and an All
\* it was passed to have both received its completion and completed: the
\* work was called once.
C5_Witness ==
    \E p, q, r \in Ids :
        /\ tasks[p].kind = "work"
        /\ Len(awaited[p]) = 2
        /\ tasks[q].kind = "race" /\ tasks[q].ins = <<p>> /\ tasks[q].pc = "exit"
        /\ tasks[r].kind = "all" /\ tasks[r].ins = <<p>> /\ tasks[r].pc = "exit"
        /\ tasks[p].invoked = 1

\* C7: New and Then never wait: as long as the client may create a promise,
\* New(fn) and p.Then(fn) can return in every state, whatever the state of
\* the other promises (a parent still Pending, a work that has not
\* returned); the promise they return is Pending, on an open channel, with
\* its goroutine not past the unit of work, and no other promise or
\* goroutine has moved during the call.
C7_NonBlocking ==
    /\ [](np < MaxPromises =>
            /\ ENABLED NewWork
            /\ \A p \in Ids, t \in Transforms : ENABLED Then(p, t))
    /\ [][(np' = np + 1 /\ tasks'[np'].kind \in {"work", "then"}) =>
            /\ ~promises'[np'].finished
            /\ chans'[promises'[np'].done] = 0
            /\ tasks'[np'].pc = "run"
            /\ \A q \in Ids : promises'[q] = promises[q] /\ tasks'[q] = tasks[q]]_vars

\* Then has returned a promise for a parent whose work has not returned: the
\* parent is Pending and so is the new promise.
C7_Witness ==
    \E p, q \in Ids :
        /\ tasks[p].kind = "work" /\ tasks[p].pc = "run"
        /\ tasks[q].kind = "then" /\ tasks[q].parent = p
        /\ ~promises[p].finished /\ ~promises[q].finished

\* C8: in a chain of Then calls every transform is called only once the
\* promise it was attached to is Completed (its channel closed and its own
\* goroutine, if any, through), with that promise's pair as arguments; the
\* Await calls on a Then promise return the outcome of its transform; and
\* New(-> "Hello").Then(+ " World").Then(+ "!") gives ("Hello World!", nil).
C8_ChainOrder ==
    \A q \in Ids :
        (tasks[q].kind = "then" /\ tasks[q].invoked > 0) =>
            LET p == tasks[q].parent IN
            /\ promises[p].finished
            /\ IsClosed(Done(p))
            /\ tasks[p].pc = "exit"
            /\ <<tasks[q].argv, tasks[q].arge>> = AwaitResult(p)
            /\ \A i \in 1..Len(awaited[q]) :
                  awaited[q][i] = Outcome(tasks[q].rv, tasks[q].re)
            /\ (/\ tasks[q].fn = "Bang"
                /\ tasks[p].kind = "then" /\ tasks[p].fn = "World"
                /\ tasks[tasks[p].parent].kind = "work"
                /\ tasks[tasks[p].parent].rv = "Hello"
                /\ tasks[tasks[p].parent].re = Nil)
               => \A i \in 1..Len(awaited[q]) : awaited[q][i] = <<"Hello World!", Nil>>

\* The chain of the example has run and Await on its last promise has
\* returned ("Hello World!", nil).
C8_Witness ==
    /\ np = 3
    /\ tasks[1].kind = "work" /\ tasks[1].rv = "Hello" /\ tasks[1].re = Nil
    /\ tasks[2].kind = "then" /\ tasks[2].parent = 1 /\ tasks[2].fn = "World"
    /\ tasks[3].kind = "then" /\ tasks[3].parent = 2 /\ tasks[3].fn = "Bang"
    /\ tasks[2].argv = "Hello" /\ tasks[3].argv = "Hello World"
    /\ awaited[3] = << <<"Hello World!", Nil>> >>

\* C9: with several Then calls on one parent, each call has a promise and a
\* channel of its own, each transform is called at most once, the transforms
\* that have been called were all called with the parent's pair, and (under
\* fair scheduling) once the parent's channel is closed every transform
\* attached to it, before or after, is eventually called.
C9_FanOut ==
    /\ [](\A q \in Ids :
            tasks[q].kind = "then" =>
                /\ tasks[q].invoked <= 1
                /\ Done(q) # Done(tasks[q].parent)
                /\ \A r \in Ids \ {q} : Done(r) # Done(q)
                /\ tasks[q].invoked = 1 =>
                      <<tasks[q].argv, tasks[q].arge>> = AwaitResult(tasks[q].parent))
    /\ \A q \in 1..MaxPromises :
          (q \in Ids /\ tasks[q].kind = "then" /\ IsClosed(Done(tasks[q].parent)))
              ~> (q \in Ids /\ tasks[q].invoked = 1)

\* Two different transforms attached to one promise of New have both been
\* called with the value of the work.
C9_Witness ==
    \E p, q, r \in Ids :
        /\ tasks[p].kind = "work" /\ tasks[p].re = Nil
        /\ q # r
        /\ tasks[q].kind = "then" /\ tasks[q].parent = p
        /\ tasks[r].kind = "then" /\ tasks[r].parent = p
        /\ tasks[q].fn # tasks[r].fn
        /\ tasks[q].invoked = 1 /\ tasks[r].invoked = 1
        /\ tasks[q].argv = "Hello" /\ tasks[r].argv = "Hello"

\* C10 (as claimed): Await on the promise of Then yields the very pair the
\* transform returned.
C10_SamePair ==
    \A q \in Ids :
        tasks[q].kind = "then" =>
            \A i \in 1..Len(awaited[q]) : awaited[q][i] = <<tasks[q].rv, tasks[q].re>>

\* C10 (amended): the promise of Then completes with the outcome of the
\* transform's return (v, e): Await yields (v, nil) when e is nil and
\* (zero value, e) when it is not, the value returned beside an error being
\* dropped.
C10_ThenOutcome ==
    \A q \in Ids :
        tasks[q].kind = "then" =>
            /\ tasks[q].pc = "exit" =>
                  AwaitResult(q) = Outcome(tasks[q].rv, tasks[q].re)
            /\ \A i \in 1..Len(awaited[q]) :
                  awaited[q][i] = Outcome(tasks[q].rv, tasks[q].re)

\* A transform has returned a value together with an error and Await on its
\* promise has returned.
C10_Witness ==
    \E q \in Ids :
        /\ tasks[q].kind = "then"
        /\ tasks[q].rv # Zero /\ tasks[q].re # Nil
        /\ Len(awaited[q]) > 0

\* C11: Then does not short-circuit on failure.  A transform attached to a
\* parent that has an error is called all the same, once, with (zero value,
\* error of the parent); what it returns is what the transform computes from
\* that pair, and the promise of the Then completes with the outcome of that
\* return and nothing else.  Under fair scheduling the call is eventually
\* made once the rejected parent's channel is closed.
C11_NoShortCircuit ==
    /\ [](\A q \in Ids :
            (/\ tasks[q].kind = "then"
             /\ tasks[q].pc # "run"
             /\ promises[tasks[q].parent].err # Nil) =>
                LET e == promises[tasks[q].parent].err
                IN /\ tasks[q].invoked = 1
                   /\ <<tasks[q].argv, tasks[q].arge>> = <<Zero, e>>
                   /\ <<tasks[q].rv, tasks[q].re>> = transform(tasks[q].fn, Zero, e)
                   /\ promises[q].finished =>
                         AwaitResult(q) = Outcome(tasks[q].rv, tasks[q].re))
    /\ \A q \in 1..MaxPromises :
          (/\ q \in Ids
           /\ tasks[q].kind = "then"
           /\ IsClosed(Done(tasks[q].parent))
           /\ promises[tasks[q].parent].err # Nil)
              ~> (q \in Ids /\ tasks[q].invoked = 1)

\* Two transforms have been called with an error and their promises are
\* completed: the first, attached to a promise of Reject, replaced the error
\* (the value it returned beside the new error is dropped), and the second,
\* attached to the first, cleared the error and resolved.
C11_Witness ==
    /\ np = 3
    /\ tasks[1].kind = "rejected"
    /\ tasks[2].kind = "then" /\ tasks[2].parent = 1 /\ tasks[2].fn = "Replace"
    /\ tasks[3].kind = "then" /\ tasks[3].parent = 2 /\ tasks[3].fn = "World"
    /\ tasks[2].pc = "exit" /\ tasks[3].pc = "exit"
    /\ tasks[2].arge = "blerg" /\ tasks[3].arge = "wrapped: blerg"
    /\ AwaitResult(2) = <<Zero, "wrapped: blerg">>
    /\ AwaitResult(3) = <<" World", Nil>>

\* C12: a Completed promise with an error has the zero value of its type:
\* at most one of value and error is visible in the struct and in every pair
\* Await has returned, whatever the constructor, and also when the unit of
\* work or the transform returned a value beside the error.
C12_ValueOrError ==
    \A p \in Ids :
        /\ (promises[p].finished /\ promises[p].err # Nil) =>
              promises[p].value = ZeroOf(tasks[p].kind)
        /\ \A i \in 1..Len(awaited[p]) :
              awaited[p][i][2] # Nil => awaited[p][i][1] = ZeroOf(tasks[p].kind)

\* A unit of work has returned a value together with an error, a transform
\* attached to its promise has done the same, both promises are completed
\* and Await has returned on both.
C12_Witness ==
    \E p, q \in Ids :
        /\ tasks[p].kind = "work" /\ tasks[p].rv # Zero /\ tasks[p].re # Nil
        /\ tasks[q].kind = "then" /\ tasks[q].rv # Zero /\ tasks[q].re # Nil
        /\ tasks[p].pc = "exit" /\ tasks[q].pc = "exit"
        /\ awaited[p] = << <<Zero, tasks[p].re>> >>
        /\ awaited[q] = << <<Zero, tasks[q].re>> >>

\* The promise p is Completed: it was made by Resolve or Reject, or the
\* resolve or reject call of its goroutine that set finished has run to its
\* end (finished is set one statement before the channel is closed).
Completed(p) == promises[p].finished /\ tasks[p].pc = "exit"

C14_Broadcast ==
    /\ [][\A p \in Ids :
            /\ Len(awaited'[p]) > Len(awaited[p]) => IsClosed(Done(p))
            /\ IsClosed(Done(p)) => chans'[Done(p)] > 0]_vars
    /\ [](\A p \in Ids :
            (IsClosed(Done(p)) /\ waiting[p] > 0) => ENABLED AwaitReturn(p))
    /\ \A p \in 1..MaxWatched :
          (p \in Ids /\ IsClosed(Done(p)) /\ waiting[p] > 0)
              ~> (p \in Ids /\ waiting[p] = 0)

\* Two Await calls have been made on a promise of New whose channel is by
\* now closed: one consumer has been released with the result and the
\* other is still in its receive.
C14_Witness ==
    \E p \in Ids :
        /\ tasks[p].kind = "work" /\ tasks[p].pc = "exit"
        /\ waiting[p] = 1
        /\ awaited[p] = << <<"Hello", Nil>> >>
        /\ awaitCalls = MaxAwait

\* The i-th promise passed to the Race promise p was Completed strictly
\* before every other one, by construction: it was made by Resolve or
\* Reject, and every other promise passed was made by New after it.
CompletedFirst(p, i) ==
    /\ tasks[tasks[p].ins[i]].kind \in {"resolved", "rejected"}
    /\ \A j \in 1..Len(tasks[p].ins) \ {i} :
          /\ tasks[p].ins[j] > tasks[p].ins[i]
          /\ tasks[tasks[p].ins[j]].kind \notin {"resolved", "rejected"}

\* C15 (as claimed): when one of the promises passed to Race was Completed
\* strictly before every other, the Race promise completes with its outcome.
C15_FirstCompletedWins ==
    \A p \in Ids :
        (tasks[p].kind = "race" /\ promises[p].finished) =>
            \A i \in 1..Len(tasks[p].ins) :
                CompletedFirst(p, i) => AwaitResult(p) = AwaitResult(tasks[p].ins[i])

\* C15 (amended): the Race promise completes with the outcome of the promise
\* whose observer reported first.  The closure takes the first index in the
\* channel and returns the fields of that promise; when, at that receive,
\* one of the promises passed is Completed and every other is still
\* Pending, that one is the winner; and the Race promise completes with the
\* fields of the promise of the index received.
C15_FirstReportWins ==
    /\ [][\A p \in Ids :
            (tasks[p].kind = "race" /\ tasks[p].pc = "run" /\ tasks'[p].pc = "ret") =>
                /\ tasks'[p].idx = Head(tasks[p].buf)
                /\ \A i \in 1..Len(tasks[p].ins) :
                      (/\ IsClosed(Done(tasks[p].ins[i]))
                       /\ \A j \in 1..Len(tasks[p].ins) \ {i} :
                             ~IsClosed(Done(tasks[p].ins[j]))) =>
                          /\ tasks'[p].idx = i
                          /\ <<tasks'[p].rv, tasks'[p].re>> = AwaitResult(tasks[p].ins[i])]_vars
    /\ [](\A p \in Ids :
            (tasks[p].kind = "race" /\ promises[p].finished) =>
                AwaitResult(p) = AwaitResult(tasks[p].ins[tasks[p].idx]))

\* Race(Resolve(v), New(work)) has completed with v while the work is still
\* running: the second promise passed, and only the first, was Completed
\* when the closure received the index.
C15_Witness ==
    \E p \in Ids :
        /\ tasks[p].kind = "race" /\ tasks[p].pc = "exit"
        /\ Len(tasks[p].ins) = 2
        /\ tasks[tasks[p].ins[1]].kind = "resolved"
        /\ tasks[tasks[p].ins[2]].kind = "work" /\ tasks[tasks[p].ins[2]].pc = "run"
        /\ tasks[p].idx = 1
        /\ AwaitResult(p) = <<"Hello", Nil>>

\* C16: what Race reports is the pair of one promise passed that was
\* Completed by then.  From the moment its closure has returned, the pair
\* returned is the (value, error) of the promise of the index received,
\* whose channel is closed and whose finished flag is set; and the fields
\* of a completed Race promise are those of that same promise, never the
\* value of one promise with the error of another.
C16_RaceReportsAnInput ==
    \A p \in Ids :
        (tasks[p].kind = "race" /\ tasks[p].pc # "run") =>
            /\ tasks[p].idx \in 1..Len(tasks[p].ins)
            /\ LET w == tasks[p].ins[tasks[p].idx]
               IN /\ IsClosed(Done(w)) /\ promises[w].finished
                  /\ <<tasks[p].rv, tasks[p].re>> = <<promises[w].value, promises[w].err>>
                  /\ promises[p].finished =>
                        /\ promises[p].value = promises[w].value
                        /\ promises[p].err = promises[w].err

\* Race(Resolve(v), Reject(e)) has completed with the rejection: the error
\* is e and the value is the zero value, not v.
C16_Witness ==
    \E p \in Ids :
        /\ tasks[p].kind = "race" /\ tasks[p].pc = "exit"
        /\ Len(tasks[p].ins) = 2
        /\ tasks[tasks[p].ins[1]].kind = "resolved"
        /\ tasks[tasks[p].ins[2]].kind = "rejected"
        /\ tasks[p].idx = 2
        /\ promises[p].value = Zero /\ promises[p].err = "blerg"

\* C17: a completed Race promise is out of reach of the losers.  Once its
\* finished flag is set, no step (the completion of another promise passed,
\* the report of another observer) changes its struct, the pair its closure
\* returned or the index it received, its goroutine makes no further
\* resolve or reject call, and no second index is taken from the channel.
C17_LosersDiscarded ==
    [][\A p \in Ids :
          (tasks[p].kind = "race" /\ promises[p].finished) =>
              /\ promises'[p] = promises[p]
              /\ <<tasks'[p].rv, tasks'[p].re, tasks'[p].idx>> =
                     <<tasks[p].rv, tasks[p].re, tasks[p].idx>>
              /\ tasks'[p].calls = 1
              /\ Len(tasks'[p].buf) >= Len(tasks[p].buf)]_vars

\* Race(Resolve(v), New(work)) is completed with v while the work has
\* failed, its promise is rejected and its observer has reported: the index
\* of the loser lies unread in the channel and the Race promise holds v.
C17_Witness ==
    \E p \in Ids :
        /\ tasks[p].kind = "race" /\ tasks[p].pc = "exit"
        /\ Len(tasks[p].ins) = 2
        /\ tasks[tasks[p].ins[1]].kind = "resolved"
        /\ tasks[tasks[p].ins[2]].kind = "work"
        /\ promises[tasks[p].ins[2]].err = "something went wrong"
        /\ tasks[p].obs = <<"done", "done">>
        /\ tasks[p].idx = 1 /\ tasks[p].buf = <<2>>
        /\ AwaitResult(p) = <<"Hello", Nil>>

\* Every promise passed to the All promise p is resolved: Completed with a
\* nil error.
AllResolved(p) ==
    \A i \in 1..Len(tasks[p].ins) :
        /\ IsClosed(Done(tasks[p].ins[i]))
        /\ promises[tasks[p].ins[i]].err = Nil

\* The values of the promises passed to the All promise p, in the order in
\* which they were passed.
InputValues(p) == [i \in 1..Len(tasks[p].ins) |-> promises[tasks[p].ins[i]].value]

\* C18: when every promise passed to All is resolved, what the closure of
\* All returns, and what the All promise completes with, is a nil error and
\* the list of their values in the order in which they were passed: length
\* n and r[i] the value of the i-th promise, whatever the order in which
\* they completed and their observers reported; and under fair scheduling
\* the All promise does complete so (a state in which every All promise
\* whose promises are all resolved is resolved with that list is reached
\* again and again).
C18_AllInInputOrder ==
    /\ [](\A p \in Ids :
            (tasks[p].kind = "all" /\ AllResolved(p)) =>
                /\ tasks[p].pc # "run" =>
                      /\ tasks[p].re = Nil
                      /\ tasks[p].rv = [isNil |-> FALSE, elems |-> InputValues(p)]
                /\ promises[p].finished =>
                      /\ promises[p].err = Nil
                      /\ Len(promises[p].value.elems) = Len(tasks[p].ins)
                      /\ \A i \in 1..Len(tasks[p].ins) :
                            promises[p].value.elems[i] = promises[tasks[p].ins[i]].value)
    /\ []<>(\A p \in Ids :
              (tasks[p].kind = "all" /\ AllResolved(p)) =>
                  /\ IsClosed(Done(p))
                  /\ AwaitResult(p) = <<[isNil |-> FALSE, elems |-> InputValues(p)], Nil>>)

\* All(a, b) over two promises of New, whose units of work returned 42 and
\* 55, is resolved with the list (42, 55).
C18_Witness ==
    \E p \in Ids :
        /\ tasks[p].kind = "all" /\ tasks[p].pc = "exit"
        /\ Len(tasks[p].ins) = 2
        /\ tasks[tasks[p].ins[1]].kind = "work" /\ tasks[tasks[p].ins[2]].kind = "work"
        /\ promises[p].err = Nil
        /\ promises[p].value = [isNil |-> FALSE, elems |-> <<"42", "55">>]

\* Some promise passed to the All promise p is rejected: Completed with an
\* error.
SomeRejected(p) ==
    \E i \in 1..Len(tasks[p].ins) :
        /\ IsClosed(Done(tasks[p].ins[i]))
        /\ promises[tasks[p].ins[i]].err # Nil

\* C19: in every reachable state, an All promise that is resolved (its
\* closure returned a nil error, or it is Completed with a nil error) has
\* every promise passed Completed with a nil error; an All promise that is
\* Completed has every promise passed Completed or one of them rejected;
\* and with one of them rejected the All promise is not resolved.
C19_AllOrRejected ==
    \A p \in Ids :
        tasks[p].kind = "all" =>
            /\ (tasks[p].pc # "run" /\ tasks[p].re = Nil) => AllResolved(p)
            /\ (promises[p].finished /\ promises[p].err = Nil) =>
                  /\ AllResolved(p)
                  /\ \A i \in 1..Len(tasks[p].ins) : promises[tasks[p].ins[i]].finished
            /\ promises[p].finished =>
                  \/ \A i \in 1..Len(tasks[p].ins) : IsClosed(Done(tasks[p].ins[i]))
                  \/ SomeRejected(p)
            /\ SomeRejected(p) => ~(promises[p].finished /\ promises[p].err = Nil)

\* All(a, b) is rejected with the error of b, a promise of Reject, while
\* the unit of work of a has not returned.
C19_Witness ==
    \E p \in Ids :
        /\ tasks[p].kind = "all" /\ tasks[p].pc = "exit"
        /\ Len(tasks[p].ins) = 2
        /\ tasks[tasks[p].ins[1]].kind = "work" /\ tasks[tasks[p].ins[1]].pc = "run"
        /\ tasks[tasks[p].ins[2]].kind = "rejected"
        /\ promises[p].finished
        /\ promises[p].err = "blerg"

\* C20: All is fail-fast.  Under fair scheduling an All promise with a
\* rejected promise among those passed is eventually rejected itself, with
\* the error of one of the rejected ones, whether or not the others ever
\* complete: a state in which every such All promise is rejected is reached
\* again and again, no unit of work being made to return.
C20_FailFast ==
    []<>(\A p \in Ids :
            (tasks[p].kind = "all" /\ SomeRejected(p)) =>
                /\ IsClosed(Done(p))
                /\ promises[p].value = NilSlice
                /\ \E i \in 1..Len(tasks[p].ins) :
                      /\ IsClosed(Done(tasks[p].ins[i]))
                      /\ promises[tasks[p].ins[i]].err # Nil
                      /\ promises[p].err = promises[tasks[p].ins[i]].err)

\* All(a, b) is rejected with the error of the unit of work of a, while the
\* unit of work of b has not returned and its observer still waits.
C20_Witness ==
    \E p \in Ids :
        /\ tasks[p].kind = "all" /\ tasks[p].pc = "exit"
        /\ Len(tasks[p].ins) = 2
        /\ tasks[tasks[p].ins[1]].kind = "work"
        /\ tasks[tasks[p].ins[2]].kind = "work" /\ tasks[tasks[p].ins[2]].pc = "run"
        /\ tasks[p].obs = <<"done", "wait">>
        /\ AwaitResult(p) = <<NilSlice, "something went wrong">>

\* The i-th promise passed to the All promise p was rejected strictly before
\* every other promise passed completed, by construction: it was made by
\* Reject, and every other one was made by New after it.
RejectedFirst(p, i) ==
    /\ tasks[tasks[p].ins[i]].kind = "rejected"
    /\ CompletedFirst(p, i)

\* C21 (as claimed): when several promises passed to All reject, the All
\* promise is rejected with the error of the one that was rejected first.
C21_FirstRejectedWins ==
    \A p \in Ids :
        (tasks[p].kind = "all" /\ promises[p].finished) =>
            \A i \in 1..Len(tasks[p].ins) :
                RejectedFirst(p, i) => promises[p].err = promises[tasks[p].ins[i]].err

\* C21 (amended): the All promise is rejected with the error of the rejected
\* promise whose index its loop receives first, whichever was rejected
\* first.  The round of the loop that returns an error returns a nil list
\* and the error of the promise of the index at the head of the channel;
\* when that promise is the only rejected one at that receive, the error is
\* its error; from then on the pair returned never changes, whatever the
\* other promises do, and a completed All promise holds that pair.
C21_FirstObservedRejection ==
    /\ [][\A p \in Ids :
            (tasks[p].kind = "all" /\ tasks[p].pc = "run" /\ tasks'[p].pc = "ret"
                /\ tasks'[p].re # Nil) =>
                /\ Len(tasks[p].buf) > 0
                /\ tasks'[p].rv = NilSlice
                /\ tasks'[p].re = promises[tasks[p].ins[Head(tasks[p].buf)]].err
                /\ \A i \in 1..Len(tasks[p].ins) :
                      (/\ IsClosed(Done(tasks[p].ins[i]))
                       /\ promises[tasks[p].ins[i]].err # Nil
                       /\ \A j \in 1..Len(tasks[p].ins) \ {i} :
                             ~(/\ IsClosed(Done(tasks[p].ins[j]))
                               /\ promises[tasks[p].ins[j]].err # Nil)) =>
                          tasks'[p].re = promises[tasks[p].ins[i]].err]_vars
    /\ [][\A p \in Ids :
            (tasks[p].kind = "all" /\ tasks[p].pc # "run") =>
                /\ <<tasks'[p].rv, tasks'[p].re>> = <<tasks[p].rv, tasks[p].re>>
                /\ tasks'[p].got = tasks[p].got
                /\ promises[p].finished => promises'[p] = promises[p]]_vars
    /\ [](\A p \in Ids :
            (tasks[p].kind = "all" /\ promises[p].finished /\ tasks[p].re # Nil) =>
                AwaitResult(p) = <<NilSlice, tasks[p].re>>)

\* All(Reject(e), New(work)) is rejected with the error of the work, which
\* failed after the first promise was rejected: the observer of the second
\* promise reported first, and the index of the first lies unread in the
\* channel.
C21_Witness ==
    \E p \in Ids :
        /\ tasks[p].kind = "all" /\ tasks[p].pc = "exit"
        /\ Len(tasks[p].ins) = 2
        /\ tasks[tasks[p].ins[1]].kind = "rejected"
        /\ tasks[tasks[p].ins[2]].kind = "work"
        /\ promises[tasks[p].ins[1]].err = "blerg"
        /\ tasks[p].obs = <<"done", "done">>
        /\ tasks[p].buf = <<1>>
        /\ AwaitResult(p) = <<NilSlice, "something went wrong">>

\* The i-th promise passed to the All promise p is rejected and is the only
\* one that is.
OnlyRejected(p, i) ==
    /\ IsClosed(Done(tasks[p].ins[i]))
    /\ promises[tasks[p].ins[i]].err # Nil
    /\ \A j \in 1..Len(tasks[p].ins) \ {i} :
          ~(IsClosed(Done(tasks[p].ins[j])) /\ promises[tasks[p].ins[j]].err # Nil)

\* C22: with exactly one promise passed to All rejected, with err, the All
\* promise completes with (nil, err).  In every reachable state, a closure
\* of All that returned an error returned a nil list, not the list it was
\* filling; a rejected All promise holds a nil list; and while one promise
\* passed is the only rejected one, the error returned and the error of the
\* completed All promise are exactly its error, wherever the others stand.
\* Under fair scheduling the All promise does complete so: a state in which
\* every All promise with one rejected promise, and every other resolved,
\* is completed with (nil, err) is reached again and again.
C22_NilListAndError ==
    /\ [](\A p \in Ids :
            tasks[p].kind = "all" =>
                /\ (tasks[p].pc # "run" /\ tasks[p].re # Nil) => tasks[p].rv = NilSlice
                /\ (promises[p].finished /\ promises[p].err # Nil) =>
                      promises[p].value = NilSlice
                /\ \A i \in 1..Len(tasks[p].ins) :
                      OnlyRejected(p, i) =>
                          /\ tasks[p].pc # "run" =>
                                tasks[p].re = promises[tasks[p].ins[i]].err
                          /\ promises[p].finished =>
                                AwaitResult(p) = <<NilSlice, promises[tasks[p].ins[i]].err>>)
    /\ []<>(\A p \in Ids :
              (/\ tasks[p].kind = "all"
               /\ \A j \in 1..Len(tasks[p].ins) : IsClosed(Done(tasks[p].ins[j]))
               /\ \E i \in 1..Len(tasks[p].ins) : OnlyRejected(p, i)) =>
                  /\ IsClosed(Done(p))
                  /\ promises[p].value = NilSlice
                  /\ \E i \in 1..Len(tasks[p].ins) :
                        /\ OnlyRejected(p, i)
                        /\ promises[p].err = promises[tasks[p].ins[i]].err)

\* All(a, b) over a unit of work that returned 42 and a promise of Reject:
\* the loop received the index of a first and stored 42 in its list, then
\* that of b; the All promise is completed with a nil list and the error
\* of b.
C22_Witness ==
    \E p \in Ids :
        /\ tasks[p].kind = "all" /\ tasks[p].pc = "exit"
        /\ Len(tasks[p].ins) = 2
        /\ tasks[tasks[p].ins[1]].kind = "work"
        /\ promises[tasks[p].ins[1]].value = "42"
        /\ tasks[tasks[p].ins[2]].kind = "rejected"
        /\ tasks[p].results.elems[1] = "42"
        /\ tasks[p].got = 2
        /\ AwaitResult(p) = <<NilSlice, "blerg">>

\* The promises of units of work passed to the Race or All promise p.
WorkOperands(p) ==
    { tasks[p].ins[i] : i \in 1..Len(tasks[p].ins) } \cap
        { q \in Ids : tasks[q].kind = "work" }

\* C23: Race and All neither cancel nor alter the promises passed to them.
\* For a completed Race or All promise (whatever it completed with) and the
\* promise q of a unit of work passed to it: while the work of q has not
\* returned, q is Pending, the work can return with any of its outcomes,
\* and no step changes the struct or the channel of q, nor its goroutine
\* except by the return of its own work; once the work has returned, the
\* pair it returned is kept, the goroutine of q can go on through resolve or
\* reject, and q completes with the outcome of its own work, which is what
\* Await on q returns.
C23_OperandsUntouched ==
    /\ [](\A p \in Ids :
            (tasks[p].kind \in {"race", "all"} /\ promises[p].finished) =>
                \A q \in WorkOperands(p) :
                    /\ tasks[q].pc = "run" =>
                          /\ ~promises[q].finished /\ ~IsClosed(Done(q))
                          /\ \A r \in WorkReturns : ENABLED WorkReturn(q, r)
                    /\ tasks[q].pc \in {"ret", "close"} => ENABLED Settle(q)
                    /\ promises[q].finished =>
                          AwaitResult(q) = Outcome(tasks[q].rv, tasks[q].re)
                    /\ tasks[q].pc = "exit" => IsClosed(Done(q)) /\ promises[q].finished)
    /\ [][\A p \in Ids :
            (tasks[p].kind \in {"race", "all"} /\ promises[p].finished) =>
                \A q \in WorkOperands(p) :
                    /\ tasks[q].pc = "run" =>
                          /\ promises'[q] = promises[q]
                          /\ chans'[Done(q)] = chans[Done(q)]
                          /\ \/ tasks'[q] = tasks[q]
                             \/ \E r \in WorkReturns :
                                   tasks'[q] = [tasks[q] EXCEPT !.pc = "ret",
                                                                 !.rv = r[1], !.re = r[2]]
                    /\ tasks[q].pc # "run" =>
                          <<tasks'[q].rv, tasks'[q].re>> = <<tasks[q].rv, tasks[q].re>>]_vars

\* Race(Timeout(d), New(work)) has completed with the deadline error, the
\* observer of the work has yet to report, and the promise of the work is
\* resolved with the value its work returned.
C23_Witness ==
    \E p \in Ids :
        /\ tasks[p].kind = "race" /\ tasks[p].pc = "exit"
        /\ Len(tasks[p].ins) = 2
        /\ tasks[tasks[p].ins[1]].kind = "timeout"
        /\ tasks[tasks[p].ins[2]].kind = "work"
        /\ tasks[p].obs = <<"done", "wait">>
        /\ promises[p].err = ErrDeadlineExceeded
        /\ tasks[tasks[p].ins[2]].pc = "exit"
        /\ AwaitResult(tasks[p].ins[2]) = <<"Hello", Nil>>

\* C24: a Timeout(d) promise is Pending until d has passed since its
\* creation and is then rejected with os.ErrDeadlineExceeded and the zero
\* value.  The time at which its sleep may end is set at its creation, d
\* after it; in every state before that time the closure has not returned,
\* the finished flag is clear and the channel is open; the closure returns
\* nothing but (zero, os.ErrDeadlineExceeded), and a completed Timeout
\* promise holds that pair, never a nil error.  As time passes and the
\* goroutines run, every Timeout promise is eventually completed so (a
\* state in which all of them are is reached again and again).
C24_TimeoutAfterDuration ==
    /\ [][np' = np + 1 /\ tasks'[np'].kind = "timeout" =>
            \E d \in Durations : tasks'[np'].wake = now + d]_vars
    /\ [](\A p \in Ids :
            tasks[p].kind = "timeout" =>
                /\ now < tasks[p].wake =>
                      /\ tasks[p].pc = "run"
                      /\ ~promises[p].finished
                      /\ ~IsClosed(Done(p))
                /\ tasks[p].pc # "run" =>
                      <<tasks[p].rv, tasks[p].re>> = <<Zero, ErrDeadlineExceeded>>
                /\ (promises[p].finished \/ IsClosed(Done(p))) =>
                      /\ now >= tasks[p].wake
                      /\ AwaitResult(p) = <<Zero, ErrDeadlineExceeded>>)
    /\ []<>(\A p \in Ids :
              tasks[p].kind = "timeout" =>
                  /\ IsClosed(Done(p))
                  /\ AwaitResult(p) = <<Zero, ErrDeadlineExceeded>>)

\* Two Timeout promises of the same duration, the second created one tick
\* after the first: the first is rejected with the deadline error while the
\* second, its duration not yet over, is Pending.
C24_Witness ==
    \E p, q \in Ids :
        /\ tasks[p].kind = "timeout" /\ tasks[q].kind = "timeout"
        /\ tasks[q].wake > tasks[p].wake
        /\ now = tasks[p].wake
        /\ tasks[p].pc = "exit"
        /\ AwaitResult(p) = <<Zero, ErrDeadlineExceeded>>
        /\ tasks[q].pc = "run" /\ ~promises[q].finished

\* The Timeout promise and the promise of the unit of work passed to the
\* Race promise p of Race(Timeout(d), New(work)).
TimeoutOf(p) == CHOOSE q \in {tasks[p].ins[1], tasks[p].ins[2]} : tasks[q].kind = "timeout"
WorkOf(p) == CHOOSE q \in {tasks[p].ins[1], tasks[p].ins[2]} : tasks[q].kind = "work"

\* C25: Race(Timeout(d), New(work)) bounds the wait.  The pair the closure
\* of the Race returns, and the pair the Race promise completes with, is
\* that of the Timeout promise, (zero, os.ErrDeadlineExceeded), or that of
\* the promise of the work, Completed by then with the outcome of the work;
\* while the promise of the work is not Completed it is the former.  Under
\* fair scheduling, time passing, the Race promise is eventually Completed
\* whether or not the work ever returns: a state in which every such Race
\* promise is Completed is reached again and again, no unit of work being
\* made to return.
C25_RaceBoundsWait ==
    /\ [](\A p \in Ids :
            (tasks[p].kind = "race" /\ tasks[p].pc # "run") =>
                LET w == WorkOf(p)
                    pair == IF promises[p].finished THEN AwaitResult(p)
                                                    ELSE <<tasks[p].rv, tasks[p].re>>
                IN /\ \/ pair = <<Zero, ErrDeadlineExceeded>>
                      \/ /\ IsClosed(Done(w))
                         /\ pair = Outcome(tasks[w].rv, tasks[w].re)
                   /\ ~IsClosed(Done(w)) =>
                         /\ pair = <<Zero, ErrDeadlineExceeded>>
                         /\ IsClosed(Done(TimeoutOf(p)))
                         /\ now >= tasks[TimeoutOf(p)].wake)
    /\ []<>(\A p \in Ids : tasks[p].kind = "race" => IsClosed(Done(p)))

\* Race(Timeout(d), New(work)) is rejected with the deadline error while
\* the work has not returned.
C25_Witness ==
    \E p \in Ids :
        /\ tasks[p].kind = "race" /\ tasks[p].pc = "exit"
        /\ Len(tasks[p].ins) = 2
        /\ tasks[tasks[p].ins[1]].kind = "timeout"
        /\ tasks[tasks[p].ins[2]].kind = "work" /\ tasks[tasks[p].ins[2]].pc = "run"
        /\ IsClosed(Done(p))
        /\ AwaitResult(p) = <<Zero, ErrDeadlineExceeded>>

\* C26: a promise of New has no timeout of its own.  While its unit of work
\* has not returned it is Pending (flag clear, channel open, fields zero),
\* no Await on it has returned and none can return; no step of a consumer
\* (an Await, a Then, an observer or the closure of a Race or an All it was
\* passed to) changes its struct or its channel or lets an Await on it
\* return, so that with a unit of work that never returns this lasts for
\* ever; the only step that ends it is the return of the work itself, and
\* the struct changes only in the goroutine's own resolve or reject call
\* after that.
C26_NoOwnTimeout ==
    /\ [](\A q \in Ids :
            (tasks[q].kind = "work" /\ tasks[q].pc = "run") =>
                /\ ~promises[q].finished
                /\ ~IsClosed(Done(q))
                /\ AwaitResult(q) = <<Zero, Nil>>
                /\ awaited[q] = << >>
                /\ ~ENABLED Await(q))
    /\ [][\A q \in Ids :
            tasks[q].kind = "work" =>
                /\ (tasks[q].pc = "run" /\ tasks'[q].pc = "run") =>
                      /\ promises'[q] = promises[q]
                      /\ chans'[Done(q)] = chans[Done(q)]
                      /\ awaited'[q] = awaited[q]
                /\ (tasks[q].pc = "run" /\ tasks'[q].pc # "run") =>
                      /\ tasks'[q].pc = "ret"
                      /\ <<tasks'[q].rv, tasks'[q].re>> \in WorkReturns
                      /\ promises'[q] = promises[q]
                /\ promises'[q] # promises[q] => tasks[q].pc = "ret"]_vars

\* The unit of work of a promise of New has not returned; a Then on the
\* promise and a Race over it have been made and their goroutines wait; the
\* promise is Pending.
C26_Witness ==
    \E q, t, r \in Ids :
        /\ tasks[q].kind = "work" /\ tasks[q].pc = "run"
        /\ tasks[t].kind = "then" /\ tasks[t].parent = q /\ tasks[t].pc = "run"
        /\ tasks[r].kind = "race" /\ tasks[r].ins = <<q>> /\ tasks[r].pc = "run"
        /\ tasks[r].obs = <<"wait">>
        /\ ~promises[q].finished /\ ~IsClosed(Done(q))

\* The error of promise p is that of one of the promises passed to it, which
\* is Completed.
Forwarded(p) ==
    \E i \in 1..Len(tasks[p].ins) :
        /\ IsClosed(Done(tasks[p].ins[i]))
        /\ promises[tasks[p].ins[i]].err = promises[p].err

\* C27: where the error of a promise comes from.  In every reachable state
\* a promise that is not Completed holds a nil error, and the error of a
\* Completed one is: for Resolve, nil; for Reject, the error passed; for New
\* over a unit of work, the error the work returned; for Then, the error its
\* transform returned when called with the fields of the parent; for
\* Timeout, os.ErrDeadlineExceeded; for Race and All, nil or the error of
\* one of the promises passed.  The deadline error is held only by a
\* Timeout promise, by a Race or All promise that has it from a promise
\* passed, or by a Then promise whose transform was given it.
C27_ErrorProvenance ==
    \A p \in Ids :
        /\ ~promises[p].finished => promises[p].err = Nil
        /\ promises[p].finished =>
              CASE tasks[p].kind = "resolved" -> promises[p].err = Nil
                [] tasks[p].kind = "rejected" ->
                      promises[p].err = tasks[p].re /\ tasks[p].re \in RejectArgs
                [] tasks[p].kind = "work" ->
                      /\ promises[p].err = tasks[p].re
                      /\ <<tasks[p].rv, tasks[p].re>> \in WorkReturns
                [] tasks[p].kind = "then" ->
                      /\ promises[p].err = tasks[p].re
                      /\ tasks[p].re = transform(tasks[p].fn,
                                                 promises[tasks[p].parent].value,
                                                 promises[tasks[p].parent].err)[2]
                [] tasks[p].kind = "timeout" -> promises[p].err = ErrDeadlineExceeded
                [] tasks[p].kind \in {"race", "all"} ->
                      promises[p].err # Nil => Forwarded(p)
        /\ promises[p].err = ErrDeadlineExceeded =>
              \/ tasks[p].kind = "timeout"
              \/ tasks[p].kind \in {"race", "all"} /\ Forwarded(p)
              \/ /\ tasks[p].kind = "then"
                 /\ promises[tasks[p].parent].err = ErrDeadlineExceeded

\* The error passed to Reject, forwarded by the transform of a Then on the
\* rejected promise, is the error of the All over the Then promise.
C27_Witness ==
    \E p \in Ids :
        /\ tasks[p].kind = "all" /\ tasks[p].pc = "exit"
        /\ Len(tasks[p].ins) = 1
        /\ tasks[tasks[p].ins[1]].kind = "then"
        /\ tasks[tasks[p].ins[1]].fn = "Special"
        /\ tasks[tasks[tasks[p].ins[1]].parent].kind = "rejected"
        /\ AwaitResult(p) = <<NilSlice, "blerg">>

\* The calls of TimeoutFn the client has made.
TimeoutFnCalls == { c \in DOMAIN fns : fns[c].kind = "TimeoutFn" }

\* The call c has returned the zero value and os.ErrDeadlineExceeded.
TimedOut(c) ==
    fns[c].pc = "returned" /\ fns[c].ret = <<Zero, ErrDeadlineExceeded>>

\* C28 (as claimed): TimeoutFn returns (zero, os.ErrDeadlineExceeded) when
\* the duration passes first: a call whose function returned only after the
\* duration had passed returns the deadline error.
C28_DeadlineWhenElapsedFirst ==
    \A c \in TimeoutFnCalls :
        (fns[c].pc = "returned" /\ fns[c].late) => TimedOut(c)

\* C28 (amended): TimeoutFn returns what its select statement takes.  A
\* call that has returned has returned either (r, nil), r being what fn
\* returned and the goroutine having handed it over, or (zero,
\* os.ErrDeadlineExceeded), and the latter only when the duration had
\* passed: while it has not, the call returns only by delivery of fn's
\* value.  A call that returns while fn is still running returns the
\* deadline error.  Once the duration has passed the timer case can be
\* taken, whatever fn does, and under fair scheduling every call returns;
\* but with fn's value ready as well, select may take either case.  After
\* the return nothing changes what was returned, and a value fn returns
\* later is never received.
C28_TimeoutFnReturns ==
    /\ [](\A c \in TimeoutFnCalls :
            /\ fns[c].pc = "returned" =>
                  \/ /\ fns[c].ret = <<fns[c].val, Nil>>
                     /\ fns[c].val \in FnReturns
                     /\ fns[c].gpc = "done" /\ fns[c].got = fns[c].val
                  \/ /\ TimedOut(c)
                     /\ now >= fns[c].deadline
                     /\ fns[c].gpc # "done" /\ fns[c].got = Zero
            /\ (fns[c].pc = "select" /\ now >= fns[c].deadline) => ENABLED Expire(c)
            /\ (fns[c].pc = "select" /\ now < fns[c].deadline) => ~ENABLED Expire(c)
            /\ (fns[c].pc = "select" /\ fns[c].gpc = "send") => ENABLED Deliver(c))
    /\ [][\A c \in TimeoutFnCalls :
            /\ (fns[c].pc = "select" /\ fns'[c].pc = "returned" /\ fns[c].gpc = "run") =>
                  fns'[c].ret = <<Zero, ErrDeadlineExceeded>>
            /\ (fns[c].pc = "select" /\ fns'[c].pc = "returned" /\ now < fns[c].deadline) =>
                  fns'[c].ret = <<fns[c].val, Nil>>
            /\ fns[c].pc = "returned" =>
                  /\ fns'[c].pc = "returned"
                  /\ fns'[c].ret = fns[c].ret
                  /\ fns'[c].got = fns[c].got]_vars
    /\ []<>(\A c \in TimeoutFnCalls : fns[c].pc = "returned")

\* Two calls of TimeoutFn: one has returned the value of its function,
\* delivered before its duration had passed; the other has returned the
\* deadline error, and its function returned afterwards: the goroutine
\* stands at its send, and the value was not received.
C28_Witness ==
    \E c, e \in TimeoutFnCalls :
        /\ fns[c].pc = "returned" /\ fns[c].ret = <<"111", Nil>> /\ ~fns[c].late
        /\ TimedOut(e) /\ fns[e].gpc = "send" /\ fns[e].val = "111" /\ fns[e].late
        /\ fns[e].got = Zero

\* C29 (as claimed): after a call of TimeoutFn or TimeoutFnErr has returned
\* os.ErrDeadlineExceeded, its goroutine runs only until fn returns: once
\* fn has returned, the goroutine can take its next step, the send on ch,
\* and terminate.
C29_GoroutineTerminates ==
    \A c \in DOMAIN fns :
        (TimedOut(c) /\ fns[c].gpc = "send") => ENABLED Deliver(c)

\* C30 (as claimed): after list.Insert(index, vals...) with index within
\* bounds, the list is its elements before index, then vals, then its
\* elements from index on.
C30_InsertSplices ==
    inserted.called =>
        Elems(list) = SubSeq(inserted.old, 1, inserted.index) \o inserted.vals \o
                      SubSeq(inserted.old, inserted.index + 1, Len(inserted.old))

\* C31: Union, Intersection and Difference return a new set, the
\* mathematical union, intersection and difference (a minus b) of the
\* receiver and the argument, and change neither.  At every call the map
\* returned is a map the client did not hold before, with exactly those
\* keys, and every map held before, the receiver and the argument among
\* them (also when they are the same map), has the keys it had; a later Add
\* to one map changes no other, so the result shares nothing with a and b.
C31_SetAlgebra ==
    /\ [][setOp' # setOp =>
            /\ Len(sets') = Len(sets) + 1
            /\ setOp'.r = Len(sets') /\ setOp'.r \notin {setOp'.a, setOp'.b}
            /\ \A k \in DOMAIN sets : sets'[k] = sets[k]
            /\ sets'[setOp'.r] =
                  CASE setOp'.op = "Union" -> sets[setOp'.a] \cup sets[setOp'.b]
                    [] setOp'.op = "Intersection" -> sets[setOp'.a] \cap sets[setOp'.b]
                    [] setOp'.op = "Difference" -> sets[setOp'.a] \ sets[setOp'.b]]_vars
    /\ [][setOp' = setOp =>
            \E i \in DOMAIN sets :
                \A k \in DOMAIN sets \ {i} : sets'[k] = sets[k]]_vars

\* a = {1, 2}, b = {2, 3} and d := a.Difference(b) = {1}: a and b are as
\* they were.
C31_Witness ==
    /\ Len(sets) = 3
    /\ sets[1] = {1, 2} /\ sets[2] = {2, 3}
    /\ setOp.called /\ setOp.op = "Difference" /\ setOp.a = 1 /\ setOp.b = 2
    /\ setOp.r = 3 /\ sets[3] = {1}

\* The pair the promise q holds for good once its goroutine has completed
\* it: what its unit of work returned, the value dropped beside an error.
Final(q) ==
    IF tasks[q].re # Nil THEN <<ZeroOf(tasks[q].kind), tasks[q].re>>
                         ELSE <<tasks[q].rv, Nil>>

\* C32: the payload is written before the channel is closed, so whoever has
\* seen the channel closed reads the final pair.  In every reachable state
\* a promise whose channel is closed has its flag set and holds its final
\* pair; every pair an Await has returned is that pair; the transform of a
\* Then that has run was given it; the closure of a Race that has returned
\* has returned that of its winner; and every value the loop of an All has
\* stored, or error it has returned, is that of the promise it came from,
\* never the zero value of a promise that was about to resolve.
C32_PayloadBeforeClose ==
    /\ \A q \in Ids :
          /\ IsClosed(Done(q)) => promises[q].finished /\ AwaitResult(q) = Final(q)
          /\ \A i \in 1..Len(awaited[q]) : awaited[q][i] = Final(q)
    /\ \A p \in Ids :
          /\ (tasks[p].kind = "then" /\ tasks[p].pc # "run") =>
                <<tasks[p].argv, tasks[p].arge>> = Final(tasks[p].parent)
          /\ (tasks[p].kind = "race" /\ tasks[p].pc # "run") =>
                <<tasks[p].rv, tasks[p].re>> = Final(tasks[p].ins[tasks[p].idx])
          /\ tasks[p].kind = "all" =>
                /\ \A i \in 1..Len(tasks[p].ins) :
                      tasks[p].results.elems[i] \in {Zero, Final(tasks[p].ins[i])[1]}
                /\ (tasks[p].pc # "run" /\ tasks[p].re # Nil) =>
                      \E i \in 1..Len(tasks[p].ins) :
                          Final(tasks[p].ins[i]) = <<Zero, tasks[p].re>>
                /\ (tasks[p].pc # "run" /\ tasks[p].re = Nil) =>
                      \A i \in 1..Len(tasks[p].ins) :
                          Final(tasks[p].ins[i]) = <<tasks[p].results.elems[i], Nil>>

\* The unit of work of a promise returned "Hello"; an Await on the promise
\* has returned it, the transform of a Then on it was given it, and the
\* closure of a Race over it has returned it.
C32_Witness ==
    \E q, t, r \in Ids :
        /\ tasks[q].kind = "work" /\ tasks[q].rv = "Hello" /\ tasks[q].re = Nil
        /\ awaited[q] # << >> /\ awaited[q][1] = <<"Hello", Nil>>
        /\ tasks[t].kind = "then" /\ tasks[t].parent = q /\ tasks[t].pc # "run"
        /\ tasks[t].argv = "Hello"
        /\ tasks[r].kind = "race" /\ tasks[r].ins = <<q>> /\ tasks[r].pc # "run"
        /\ tasks[r].rv = "Hello"

\* C33: single writer.  On every promise at most one call of resolve or
\* reject is ever made, and none on a promise made by Resolve or Reject; no
\* channel is closed twice; and a step that changes the struct of a promise
\* or closes its channel is a step of that promise's own goroutine, inside
\* its one call (no other promise's goroutine is in resolve or reject on it).
C33_SingleWriter ==
    /\ [](\A p \in Ids :
             /\ tasks[p].calls <= 1
             /\ tasks[p].kind \in {"resolved", "rejected"} => tasks[p].calls = 0
             /\ tasks[p].pc = "close" => tasks[p].calls = 1)
    /\ [](\A ch \in DOMAIN chans : chans[ch] <= 1)
    /\ [][\A p \in Ids :
             /\ promises'[p] # promises[p] =>
                   /\ tasks[p].pc = "ret" /\ tasks'[p].pc = "close"
                   /\ tasks[p].calls = 0 /\ tasks'[p].calls = 1
                   /\ \A q \in Ids \ {p} : tasks'[q] = tasks[q]
             /\ chans'[promises[p].done] # chans[promises[p].done] =>
                   /\ tasks[p].pc = "close" /\ tasks'[p].pc = "exit"
                   /\ \A q \in Ids \ {p} : tasks'[q] = tasks[q]]_vars

\* A promise of New whose work failed has been rejected by its goroutine in
\* one call, beside a promise of Resolve, and a Race over the two has been
\* completed by its own goroutine in one call.
C33_Witness ==
    \E p, q, r \in Ids :
        /\ tasks[p].kind = "work" /\ tasks[p].re # Nil
        /\ tasks[p].pc = "exit" /\ tasks[p].calls = 1 /\ chans[promises[p].done] = 1
        /\ tasks[q].kind = "resolved" /\ tasks[q].calls = 0
        /\ tasks[r].kind = "race" /\ tasks[r].ins = <<p, q>>
        /\ tasks[r].pc = "exit" /\ tasks[r].calls = 1 /\ chans[promises[r].done] = 1

\* C34: the shared closed channel is closed once, by init, and never again.
\* In every reachable state exactly one close has been made on closedChan
\* and every promise of Resolve or Reject has it as its channel, while no
\* promise of New has; and no step of any operation closes it (the sends
\* of the package go to the notification channels of Race and All, which
\* their closures make).
C34_ClosedChanOnce ==
    /\ [](/\ chans[closedChan] = 1
          /\ \A p \in Ids :
                (Done(p) = closedChan) <=> (tasks[p].kind \in {"resolved", "rejected"}))
    /\ [][chans'[closedChan] = chans[closedChan]]_vars

\* A promise of Resolve and one of Reject share the closed channel; an
\* Await on each has returned and a Race over the two is completed.
C34_Witness ==
    \E p, q, r \in Ids :
        /\ tasks[p].kind = "resolved" /\ tasks[q].kind = "rejected"
        /\ Done(p) = closedChan /\ Done(q) = closedChan
        /\ awaited[p] # << >> /\ awaited[q] # << >>
        /\ tasks[r].kind = "race" /\ tasks[r].ins = <<q, p>> /\ tasks[r].pc = "exit"
        /\ tasks[r].obs = <<"done", "done">>

\* The observers of the Race or All promise p that have not sent yet.
Unsent(p) == { i \in 1..Len(tasks[p].ins) : tasks[p].obs[i] = "wait" }

\* C35: no observer of a Race or an All blocks in its send.  In every
\* reachable state the notification channel, unless closed, has room for
\* the index of every observer that has not sent yet, whatever the closure
\* has done, so that an observer whose promise is Completed can send at
\* once; and, the goroutines being scheduled, the observer of every promise
\* passed that is Completed ends, also after the closure has returned.
C35_ObserversNeverBlock ==
    /\ [](\A p \in Ids :
             /\ (tasks[p].kind \in {"race", "all"} /\ ~tasks[p].bufClosed) =>
                   Len(tasks[p].buf) + Cardinality(Unsent(p)) <= chanCap(tasks[p])
             /\ \A i \in Unsent(p) :
                   IsClosed(Done(tasks[p].ins[i])) => ENABLED Report(p, i))
    /\ []<>(\A p \in Ids : \A i \in 1..Len(tasks[p].ins) :
               IsClosed(Done(tasks[p].ins[i])) => tasks[p].obs[i] = "done")

\* An All over two promises has returned the error of the first to report
\* and is Completed; the observer of the other has sent its index since,
\* which lies in the channel.
C35_Witness ==
    \E p \in Ids :
        /\ tasks[p].kind = "all" /\ Len(tasks[p].ins) = 2
        /\ tasks[p].pc = "exit" /\ tasks[p].re # Nil /\ tasks[p].got = 1
        /\ tasks[p].obs = <<"done", "done">>
        /\ Len(tasks[p].buf) = 1

\* The number of indices the closure of the Race promise p has received:
\* those sent that are no longer in the channel.
Consumed(p) ==
    Len(tasks[p].ins) - Cardinality(Unsent(p)) - Len(tasks[p].buf)

\* C36: Race reports one winner, and which one is not determined.  The
\* closure of a Race has received no index while it waits and exactly one
\* from then on, the one whose promise's pair it returned, and no step
\* after its receive takes an index from the channel.  While the closure
\* waits and no observer has sent, the observer of each promise passed
\* that is Completed can be the first to send, and the closure then
\* receives that index: each such promise is a possible outcome.
C36_OneWinnerAnyCompleted ==
    /\ [](\A p \in Ids : tasks[p].kind = "race" =>
             /\ Consumed(p) = IF tasks[p].pc = "run" THEN 0 ELSE 1
             /\ tasks[p].pc # "run" =>
                   /\ tasks[p].idx \in 1..Len(tasks[p].ins)
                   /\ <<tasks[p].rv, tasks[p].re>> =
                          <<promises[tasks[p].ins[tasks[p].idx]].value,
                            promises[tasks[p].ins[tasks[p].idx]].err>>
             /\ (tasks[p].pc = "run" /\ tasks[p].buf = << >>) =>
                   \A i \in Unsent(p) :
                       IsClosed(Done(tasks[p].ins[i])) =>
                           ENABLED (Report(p, i) /\ tasks'[p].buf = <<i>>)
             /\ (tasks[p].pc = "run" /\ tasks[p].buf # << >>) =>
                   ENABLED (RaceRun(p) /\ tasks'[p].idx = Head(tasks[p].buf)))
    /\ [][\A p \in Ids : (tasks[p].kind = "race" /\ tasks[p].pc # "run") =>
             /\ tasks'[p].idx = tasks[p].idx
             /\ Len(tasks'[p].buf) >= Len(tasks[p].buf)]_vars

\* Race(Resolve(v), Reject(e)) has completed with the error of the second
\* promise passed, whose observer sent first; the index of the first lies
\* unread in the channel.
C36_Witness ==
    \E p \in Ids :
        /\ tasks[p].kind = "race" /\ Len(tasks[p].ins) = 2
        /\ tasks[tasks[p].ins[1]].kind = "resolved"
        /\ tasks[tasks[p].ins[2]].kind = "rejected"
        /\ tasks[p].pc = "exit" /\ tasks[p].idx = 2 /\ tasks[p].buf = <<1>>
        /\ AwaitResult(p) = <<Zero, "blerg">>

\* C37: in All no observer sends on a closed channel.  In every reachable
\* state no send has panicked; the notification channel of an All is closed
\* only when its loop has received all n indices, every observer having
\* sent, and its closure returned the results with a nil error; and after
\* an error return it is open, with room for every observer still to send.
C37_NoSendOnClosed ==
    \A p \in Ids : tasks[p].kind = "all" =>
        /\ ~tasks[p].panicked
        /\ tasks[p].bufClosed =>
              /\ tasks[p].got = Len(tasks[p].ins)
              /\ Unsent(p) = {} /\ tasks[p].buf = << >>
              /\ tasks[p].pc # "run" /\ tasks[p].re = Nil
        /\ (tasks[p].pc # "run" /\ tasks[p].re # Nil) =>
              /\ ~tasks[p].bufClosed
              /\ Len(tasks[p].buf) + Cardinality(Unsent(p)) <= chanCap(tasks[p])

\* All(Reject(e), New(work)) has returned the error of the first promise;
\* the work has returned since and its observer has sent its index, which
\* lies in the open channel.
C37_Witness ==
    \E p \in Ids :
        /\ tasks[p].kind = "all" /\ Len(tasks[p].ins) = 2
        /\ tasks[tasks[p].ins[1]].kind = "rejected"
        /\ tasks[tasks[p].ins[2]].kind = "work"
        /\ tasks[p].pc # "run" /\ tasks[p].re = "blerg"
        /\ tasks[p].obs = <<"done", "done">> /\ tasks[p].buf = <<2>>
        /\ ~tasks[p].bufClosed /\ ~tasks[p].panicked

\* C38: a Race over no promises stays Pending.  In every reachable state
\* the promise of a Race that was passed the empty list is not finished,
\* its channel is open and nothing is or comes into its notification
\* channel, so that its closure is still in its receive and cannot go on,
\* and no Await on it has returned or can return.
C38_EmptyRaceStaysPending ==
    \A p \in Ids : (tasks[p].kind = "race" /\ tasks[p].ins = << >>) =>
        /\ ~promises[p].finished /\ ~IsClosed(Done(p))
        /\ <<promises[p].value, promises[p].err>> = <<Zero, Nil>>
        /\ tasks[p].pc = "run" /\ tasks[p].buf = << >> /\ tasks[p].calls = 0
        /\ ~ENABLED RaceRun(p) /\ ~ENABLED Settle(p)
        /\ awaited[p] = << >> /\ ~ENABLED Await(p)

\* A Race over no promises is Pending beside a promise of Resolve on which
\* an Await has returned and a Race over that promise which is Completed.
C38_Witness ==
    \E p, q, r \in Ids :
        /\ tasks[p].kind = "race" /\ tasks[p].ins = << >> /\ ~promises[p].finished
        /\ tasks[q].kind = "resolved" /\ awaited[q] # << >>
        /\ tasks[r].kind = "race" /\ tasks[r].ins = <<q>> /\ tasks[r].pc = "exit"
        /\ IsClosed(Done(r))

\* The promises of an All that was passed no promises.
EmptyAll == { p \in Ids : tasks[p].kind = "all" /\ tasks[p].ins = << >> }

\* C39: All over no promises resolves with an empty list.  The closure of
\* such an All waits for nothing: while it runs its return is enabled, it
\* receives nothing and returns no error; once the promise is finished it
\* holds the empty (non-nil) list and a nil error; and, the goroutines being
\* scheduled, every such promise is eventually Completed with that pair.
C39_EmptyAllResolves ==
    /\ [](\A p \in EmptyAll :
             /\ tasks[p].got = 0 /\ tasks[p].re = Nil /\ ~tasks[p].panicked
             /\ tasks[p].pc = "run" => ENABLED AllFinish(p)
             /\ promises[p].finished =>
                   <<promises[p].value, promises[p].err>> = <<make(0), Nil>>)
    /\ []<>(\A p \in EmptyAll :
               /\ IsClosed(Done(p))
               /\ AwaitResult(p) = <<make(0), Nil>>)

\* An All over no promises is Completed with the empty list and a nil error
\* while a unit of work made before it has not returned.
C39_Witness ==
    \E p, q \in Ids :
        /\ q < p /\ tasks[q].kind = "work" /\ tasks[q].pc = "run"
        /\ p \in EmptyAll /\ tasks[p].pc = "exit" /\ IsClosed(Done(p))
        /\ promises[p].value = [isNil |-> FALSE, elems |-> << >>]
        /\ promises[p].err = Nil

====
